---- MODULE Spec2Model ----
(***************************************************************************)
(* A model of the MyCloud REST-SDK recovery scripts:                       *)
(*   restsdk_public.py      the copy pipelines (legacy and --resume),      *)
(*                          the copied_files / skipped_files ledger        *)
(*   create_symlink_farm.py reconstruct_path, get_source_file_path, main   *)
(*   sync_mtime.py          the timestamp priority, sync_mtimes            *)
(*   rsync_restore.py       run_restore, create_symlink_farm_streaming     *)
(*                                                                         *)
(* Text is modelled as a sequence of one-character strings; the token      *)
(* "auth" stands for the four-character marker substring.  The SQL NULL /  *)
(* Python None is 0 for a record id and <<>> for a content id.             *)
(***************************************************************************)
EXTENDS Integers, Sequences, FiniteSets, TLC

VARIABLES
    \* ---- pure functions applied to drawn inputs
    fn_call,        \* which function is being applied
    fn_in,          \* its arguments
    fn_out,         \* its result
    \* ---- the ledger tables of index.db
    copied_files,   \* rows <<file_id, filename>> of copied_files
    skipped_files,  \* rows <<filename, reason>> of skipped_files
    ledger_calls,   \* the mark_* calls made by the ledger driver, in order
    tables,         \* the names of the tables index.db holds
    regen,          \* regenerate_copied_files_from_dest in progress: [pc, todo, tmp_log, txn]
    \* ---- reconstruct_path (create_symlink_farm.py), one loop iteration a step
    file_dic,       \* id -> [Name, Parent, contentID]
    root_dir,       \* find_root_dir_name(file_dic), <<>> for None
    rp_pc,          \* "idle" | "walk" | "done"
    rp_id,          \* the file_id reconstruct_path was called with
    current_id,     \* the loop variable
    path_parts,     \* the list of names collected so far
    rp_steps,       \* parent steps taken
    rp_result,      \* what it returned
    \* ---- a run of restsdk_public.py or create_symlink_farm.py as a script
    cfg,            \* the command line: [mode, dry_run, no_regen, args_ok, confirm]
    main,           \* the main thread: [pc, run, exit, log_set, copied_set, skipped_set, skipname, tally]
    task,           \* the submitted work: a sequence of [file, rec, pc, newpath, todo, outcome]
    counters,       \* processed_files_counter, copied_files_counter, skipped_files_counter
    src_files,      \* the content ids that are files below filedir
    dest,           \* the files and links of the destination volume: [path, cid, complete, link]
    log_lines,      \* the lines of --log_file
    hist,           \* observations of the runs, read by the properties only
    \* ---- run_restore (rsync_restore.py)
    restore,        \* [pc, dry_run, retry_count, attempt, runs, monitor_errors, exit]
    farms,          \* [pc, dic, store, sanitize_pipes, i, farm] per builder
    sync            \* sync_mtimes: [pc, at, run, dry_run, meta, written, rows, total,
                    \*               resume_from, printed, touched, past]

fnVars     == <<fn_call, fn_in, fn_out>>
ledgerVars == <<copied_files, skipped_files, ledger_calls, tables, regen>>
pathVars   == <<file_dic, root_dir, rp_pc, rp_id, current_id, path_parts, rp_steps, rp_result>>
walkVars   == <<root_dir, rp_pc, rp_id, current_id, path_parts, rp_steps, rp_result>>
runVars    == <<cfg, main, task, counters, src_files, dest, log_lines, hist>>
vars       == <<fnVars, ledgerVars, pathVars, runVars, restore, farms, sync>>
\* what the steps of each component leave alone
fnFrame     == <<ledgerVars, pathVars, runVars, restore, farms, sync>>
ledgerFrame == <<fnVars, pathVars, runVars, restore, farms, sync>>
pathFrame   == <<fnVars, ledgerVars, runVars, restore, farms, sync>>
runFrame    == <<fnVars, walkVars, file_dic, ledger_calls, tables, regen, restore, farms, sync>>
restoreFrame == <<fnVars, ledgerVars, pathVars, runVars, farms, sync>>
farmsFrame  == <<fnVars, ledgerVars, pathVars, runVars, restore, sync>>
syncFrame   == <<fnVars, ledgerVars, pathVars, runVars, restore, farms>>
\* what a start of restsdk_public.py, which provisions the ledger, leaves alone
startFrame  == <<fnVars, walkVars, file_dic, ledger_calls, regen, restore, farms, sync>>

(***************************************************************************)
(* Text helpers: Python str methods on sequences of characters.            *)
(***************************************************************************)
NoneId == 0
NoneText == <<>>

\* s.startswith(pat)
StartsWith(s, pat) == Len(pat) <= Len(s) /\ SubSeq(s, 1, Len(pat)) = pat

\* pat in s
Contains(s, pat) == \E i \in 1..(Len(s) - Len(pat) + 1) : SubSeq(s, i, i + Len(pat) - 1) = pat

RECURSIVE RemoveAll(_, _)
\* s.replace(pat, ''): every non-overlapping occurrence, left to right
RemoveAll(s, pat) ==
    IF Len(pat) = 0 \/ Len(s) < Len(pat) THEN s
    ELSE IF StartsWith(s, pat) THEN RemoveAll(SubSeq(s, Len(pat) + 1, Len(s)), pat)
    ELSE <<Head(s)>> \o RemoveAll(Tail(s), pat)

\* s.replace(a, b) for single characters a, b
ReplaceChar(s, a, b) == [i \in 1..Len(s) |-> IF s[i] = a THEN b ELSE s[i]]

RECURSIVE LStrip(_, _)
\* s.lstrip(ch)
LStrip(s, ch) == IF Len(s) > 0 /\ Head(s) = ch THEN LStrip(Tail(s), ch) ELSE s

RECURSIVE Join(_, _)
\* sep.join(parts)
Join(parts, sep) ==
    IF Len(parts) = 0 THEN <<>>
    ELSE IF Len(parts) = 1 THEN parts[1]
    ELSE parts[1] \o sep \o Join(Tail(parts), sep)

\* ch.lower()
Lower(ch) == IF ch = "A" THEN "a" ELSE IF ch = "B" THEN "b" ELSE ch

RECURSIVE SeqsUpTo(_, _)
\* all sequences over S of length 0..n
SeqsUpTo(S, n) ==
    IF n = 0 THEN {<<>>}
    ELSE LET shorter == SeqsUpTo(S, n - 1)
         IN  shorter \cup {Append(s, c) : s \in shorter, c \in S}

\* the subsets of S with at most n elements
RECURSIVE SubsetsUpTo(_, _)
SubsetsUpTo(S, n) ==
    IF n = 0 THEN {{}}
    ELSE LET smaller == SubsetsUpTo(S, n - 1)
         IN  smaller \cup {T \cup {x} : T \in smaller, x \in S}

(***************************************************************************)
(* Content Resolver: get_source_file_path (create_symlink_farm.py).        *)
(* A path is the sequence of its components below source_dir; the store is *)
(* the set of the paths of its regular files.                              *)
(***************************************************************************)
CidChars == {"a", "A"}
MaxCidLen == 2
MaxStoreFiles == 2

ContentIds == SeqsUpTo(CidChars, MaxCidLen) \ {NoneText}

\* os.path.join(source_dir, first_char, content_id)
ShardedPath(shard, content_id) == <<<<shard>>, content_id>>
\* os.path.join(source_dir, content_id)
FlatPath(content_id) == <<content_id>>

StorePaths == {FlatPath(c) : c \in ContentIds}
                \cup {ShardedPath(ch, c) : ch \in CidChars, c \in ContentIds}

\* no regular file is also a directory holding another file
ConsistentStore(store) ==
    \A f \in store, g \in store : f /= g => ~StartsWith(g, f)

Stores == {st \in SubsetsUpTo(StorePaths, MaxStoreFiles) : ConsistentStore(st)}

\* os.path.exists(p): a file of the store, or a directory above one
PathExists(store, p) == \E f \in store : StartsWith(f, p)

\* the sharded candidate taken with content_id[0] as it is (rsync_restore.py line 578)
GetSourceFilePathNoLower(content_id, store) ==
    IF content_id = NoneText THEN <<>>
    ELSE IF PathExists(store, ShardedPath(content_id[1], content_id))
         THEN ShardedPath(content_id[1], content_id)
    ELSE IF PathExists(store, FlatPath(content_id)) THEN FlatPath(content_id)
    ELSE <<>>

\* get_source_file_path(content_id, source_dir); <<>> is None
GetSourceFilePath(content_id, store) ==
    IF content_id = NoneText THEN <<>>
    ELSE LET first_char == Lower(content_id[1])
             file_path  == ShardedPath(first_char, content_id)
             flat_path  == FlatPath(content_id)
         IN  IF PathExists(store, file_path) THEN file_path
             ELSE IF PathExists(store, flat_path) THEN flat_path
             ELSE <<>>

(***************************************************************************)
(* Timestamp priority: the loop of get_file_info_streaming (sync_mtime.py) *)
(* over imageDate, videoDate, cTime, birthTime.  A column value is         *)
(* <<storage class, number>>.                                              *)
(***************************************************************************)
NullTs == <<"null", 0>>
TsValues == {NullTs, <<"int", 0>>, <<"int", 5>>, <<"real", 7>>, <<"text", 9>>}
TsRows == [1..4 -> TsValues]

\* the test written as a truthiness test: a timestamp of 0 would be passed over
IsUsableTsTruthy(ts) == ts[1] \in {"int", "real"} /\ ts[2] /= 0

\* ts is not None and isinstance(ts, (int, float))
IsUsableTs(ts) == ts /= NullTs /\ ts[1] \in {"int", "real"}

RECURSIVE FirstUsableFrom(_, _)
FirstUsableFrom(row, i) ==
    IF i > Len(row) THEN NullTs
    ELSE IF IsUsableTs(row[i]) THEN row[i]
    ELSE FirstUsableFrom(row, i + 1)

\* timestamp_ms of a row <<imageDate, videoDate, cTime, birthTime>>
TimestampMs(row) == FirstUsableFrom(row, 1)

(***************************************************************************)
(* Progress Ledger: the copied_files and skipped_files tables and the      *)
(* INSERT OR IGNORE statements of restsdk_public.py.  A table is the       *)
(* sequence of its rows in insertion order.                                *)
(***************************************************************************)
\* the rows of a table whose PRIMARY KEY column (the first) equals key
RowsWithKey(table, key) == {i \in 1..Len(table) : table[i][1] = key}

\* INSERT OR REPLACE: a PRIMARY KEY conflict overwrites the stored row
InsertOrReplace(table, row) ==
    IF RowsWithKey(table, row[1]) /= {}
    THEN [i \in 1..Len(table) |-> IF table[i][1] = row[1] THEN row ELSE table[i]]
    ELSE Append(table, row)

\* INSERT OR IGNORE INTO table VALUES row: a PRIMARY KEY conflict drops the row
InsertOrIgnore(table, row) ==
    IF RowsWithKey(table, row[1]) /= {} THEN table ELSE Append(table, row)

\* index.db as the statements see it: its tables and the rows of the two ledger tables
AllTables == {"Files", "copied_files", "skipped_files"}
Db == [tables |-> tables, copied_files |-> copied_files, skipped_files |-> skipped_files]

\* DROP TABLE IF EXISTS followed by CREATE TABLE: the table is left empty
CreateTableAfterDrop(db, name) ==
    [db EXCEPT !.tables = @ \cup {name}, ![name] = <<>>]

\* CREATE TABLE IF NOT EXISTS name (...)
CreateTableIfNotExists(db, name) ==
    IF name \in db.tables THEN db
    ELSE [db EXCEPT !.tables = @ \cup {name}, ![name] = <<>>]

\* the database after init_copy_tracking_tables(db_path)
InitCopyTrackingTables(db) ==
    CreateTableIfNotExists(CreateTableIfNotExists(db, "copied_files"), "skipped_files")

\* the table after insert_copied_file(db_path, file_id, filename)
InsertCopiedFile(table, file_id, filename) == InsertOrIgnore(table, <<file_id, filename>>)

\* the table after insert_skipped_file(db_path, filename, reason)
InsertSkippedFile(table, filename, reason) == InsertOrIgnore(table, <<filename, reason>>)

MaxLedgerCalls == 3
LedgerFileIds == {1, 2}
LedgerNames   == {<<"a">>, <<"A">>}
LedgerReasons == {"missing", "unreadable"}

\* no regenerate_copied_files_from_dest under way: no connection, no tmp log
RegenOff == [pc |-> "off", todo |-> <<>>, tmp_log |-> <<>>, txn |-> <<>>]

LedgerIdle ==
    /\ copied_files = <<>> /\ skipped_files = <<>> /\ ledger_calls = <<>>
    /\ tables = AllTables /\ regen = RegenOff

\* index.db before the driver: the ledger tables not yet, partly or already created
LedgerInit ==
    /\ copied_files = <<>> /\ skipped_files = <<>> /\ ledger_calls = <<>>
    /\ tables \in {{"Files"}, {"Files", "copied_files"}, AllTables}
    /\ regen = RegenOff

\* init_copy_tracking_tables(db_path)
InitTables ==
    /\ Len(ledger_calls) < MaxLedgerCalls
    /\ LET db == InitCopyTrackingTables(Db)
       IN  /\ tables' = db.tables
           /\ copied_files' = db.copied_files
           /\ skipped_files' = db.skipped_files
    /\ ledger_calls' = Append(ledger_calls, <<"init", NoneId, NoneText>>)
    /\ UNCHANGED regen
    /\ UNCHANGED ledgerFrame

\* mark_copied(file_id, filename)
MarkCopied ==
    /\ Len(ledger_calls) < MaxLedgerCalls
    /\ "copied_files" \in tables
    /\ \E file_id \in LedgerFileIds, filename \in LedgerNames :
          /\ copied_files' = InsertCopiedFile(copied_files, file_id, filename)
          /\ ledger_calls' = Append(ledger_calls, <<"copied", file_id, filename>>)
    /\ UNCHANGED <<skipped_files, tables, regen>>
    /\ UNCHANGED ledgerFrame

\* insert_copied_file while another connection holds the write lock for as
\* long as one attempt waits (the busy timeout of sqlite3.connect): c.execute
\* raises sqlite3.OperationalError, lines 110-115 have no except clause and no
\* loop, so the call ends there with no row stored
MarkCopiedLocked ==
    /\ Len(ledger_calls) < MaxLedgerCalls
    /\ "copied_files" \in tables
    /\ \E file_id \in LedgerFileIds, filename \in LedgerNames :
          ledger_calls' = Append(ledger_calls, <<"copied_locked_once", file_id, filename>>)
    /\ UNCHANGED <<copied_files, skipped_files, tables, regen>>
    /\ UNCHANGED ledgerFrame

\* mark_skipped(filename, reason)
MarkSkipped ==
    /\ Len(ledger_calls) < MaxLedgerCalls
    /\ "skipped_files" \in tables
    /\ \E filename \in LedgerNames, reason \in LedgerReasons :
          /\ skipped_files' = InsertSkippedFile(skipped_files, filename, reason)
          /\ ledger_calls' = Append(ledger_calls, <<"skipped", filename, reason>>)
    /\ UNCHANGED <<copied_files, tables, regen>>
    /\ UNCHANGED ledgerFrame

(***************************************************************************)
(* Path Reconstructor: find_root_dir_name and reconstruct_path             *)
(* (create_symlink_farm.py).  Record ids are numbered in load order, so    *)
(* the iteration order of file_dic is the order of the ids.                *)
(***************************************************************************)
MaxRecords == 3
RecordIds == 1..MaxRecords
\* an id that no record has: a dangling parent, an absent starting id
AbsentId == MaxRecords + 1
\* the walk of the model is cut off after this many parent steps
MaxWalk == MaxRecords + 2

Slash == <<"/">>
\* the names a record may have: an ordinary name, the synthetic root, a name
\* with a backslash, and a name that contains the synthetic root's name
PathNames == {<<"l">>, <<"auth", "|">>, <<"\\", "p">>, <<"p", "auth", "|">>}

Indexes == [RecordIds -> [Name : PathNames,
                          Parent : {NoneId} \cup RecordIds \cup {AbsentId},
                          contentID : {NoneText}]]

\* 'auth' in name and '|' in name
IsRootDirName(name) == Contains(name, <<"auth">>) /\ Contains(name, <<"|">>)

\* find_root_dir_name(file_dic): the first match in load order, <<>> for None
FindRootDirName(dic) ==
    LET hits == {i \in DOMAIN dic : IsRootDirName(dic[i].Name)}
    IN  IF hits = {} THEN NoneText
        ELSE dic[CHOOSE i \in hits : \A j \in hits : i <= j].Name

\* the name put behind the collected ones: a leaf-to-root path
InsertBack(parts, name) == Append(parts, name)

\* path_parts.insert(0, parent_name)
InsertFront(parts, name) == <<name>> \o parts

\* lines 105-119 of reconstruct_path: join, normalize, strip, trim
AssemblePath(parts, root_dir_to_strip) ==
    LET joined     == Join(parts, Slash)
        normalized == ReplaceChar(joined, "\\", "/")
        stripped   == IF root_dir_to_strip /= NoneText
                      THEN RemoveAll(RemoveAll(normalized, root_dir_to_strip \o Slash),
                                     root_dir_to_strip)
                      ELSE normalized
    IN  LStrip(stripped, "/")

\* what reconstruct_path returns: None, or a path
RpNone == [isNone |-> TRUE, path |-> <<>>]
RpPath(p) == [isNone |-> FALSE, path |-> p]

\* "return full_path": the empty string handed back as it is
RpValueAsIs(full_path) == RpPath(full_path)

\* line 119: return full_path if full_path else None
RpValue(full_path) == IF full_path /= <<>> THEN RpPath(full_path) ELSE RpNone

PathIdle ==
    /\ file_dic = <<>> /\ root_dir = NoneText /\ rp_pc = "off" /\ rp_id = NoneId
    /\ current_id = NoneId /\ path_parts = <<>> /\ rp_steps = 0 /\ rp_result = RpNone

PathInit ==
    /\ file_dic \in Indexes
    /\ root_dir = FindRootDirName(file_dic)
    /\ rp_pc = "idle"
    /\ rp_id \in {1, AbsentId}
    /\ current_id = NoneId /\ path_parts = <<>> /\ rp_steps = 0 /\ rp_result = RpNone

\* reconstruct_path lines 88-97: the lookup of file_id
RpStart ==
    /\ rp_pc = "idle"
    /\ IF rp_id \notin DOMAIN file_dic
       THEN /\ rp_pc' = "done" /\ rp_result' = RpNone
            /\ UNCHANGED <<current_id, path_parts>>
       ELSE /\ path_parts' = <<file_dic[rp_id].Name>>
            /\ current_id' = file_dic[rp_id].Parent
            /\ rp_pc' = "walk"
            /\ UNCHANGED rp_result
    /\ UNCHANGED <<file_dic, root_dir, rp_id, rp_steps>>
    /\ UNCHANGED pathFrame

\* the loop condition of line 99
RpLoopCond == current_id /= NoneId /\ current_id \in DOMAIN file_dic

\* reconstruct_path lines 99-103: one iteration of the parent loop
RpLoop ==
    /\ rp_pc = "walk" /\ RpLoopCond
    /\ rp_steps < MaxWalk
    /\ path_parts' = InsertFront(path_parts, file_dic[current_id].Name)
    /\ current_id' = file_dic[current_id].Parent
    /\ rp_steps' = rp_steps + 1
    /\ UNCHANGED <<file_dic, root_dir, rp_pc, rp_id, rp_result>>
    /\ UNCHANGED pathFrame

\* reconstruct_path lines 105-119: the loop has ended
RpReturn ==
    /\ rp_pc = "walk" /\ ~RpLoopCond
    /\ LET full_path == AssemblePath(path_parts, root_dir)
       IN  rp_result' = RpValue(full_path)
    /\ rp_pc' = "done"
    /\ UNCHANGED <<file_dic, root_dir, rp_id, current_id, path_parts, rp_steps>>
    /\ UNCHANGED pathFrame

(***************************************************************************)
(* Legacy path reconstruction of restsdk_public.py: filenameToID,          *)
(* getRootDirs, findTree, idToPath2 over the global fileDIC.               *)
(***************************************************************************)
\* filenameToID(filename): the first key in load order whose contentID matches
FilenameToID(dic, filename) ==
    LET hits == {i \in DOMAIN dic : dic[i].contentID = filename}
    IN  IF hits = {} THEN NoneId ELSE CHOOSE i \in hits : \A j \in hits : i <= j

\* getRootDirs(): the first name with 'auth' and '|', None when there is none
GetRootDirs(dic) == FindRootDirName(dic)

RECURSIVE FindTreeLoop(_, _, _, _)
\* the while loop of findTree (lines 363-365); result [st, path], st one of
\* "ok", "keyerror" (a parent id that is no key of fileDIC), "hang" (a cycle)
FindTreeLoop(dic, fileID, path, fuel) ==
    IF fileID \notin DOMAIN dic THEN [st |-> "keyerror", path |-> <<>>]
    ELSE IF dic[fileID].Parent = NoneId THEN [st |-> "ok", path |-> path]
    ELSE IF fuel = 0 THEN [st |-> "hang", path |-> <<>>]
    ELSE LET next == dic[fileID].Parent
         IN  IF next \notin DOMAIN dic THEN [st |-> "keyerror", path |-> <<>>]
             ELSE FindTreeLoop(dic, next, dic[next].Name \o Slash \o path, fuel - 1)

\* findTree(fileID, name, parent)
FindTree(dic, fileID, name, parent) ==
    IF parent \notin DOMAIN dic THEN [st |-> "keyerror", path |-> <<>>]
    ELSE FindTreeLoop(dic, fileID, dic[parent].Name \o Slash \o name, Cardinality(DOMAIN dic))

\* idToPath2(fileID)
IdToPath2(dic, fileID) ==
    LET value == dic[fileID]
    IN  IF value.Parent /= NoneId THEN FindTree(dic, fileID, value.Name, value.Parent)
        ELSE [st |-> "ok", path |-> value.Name]

(***************************************************************************)
(* The decision of copy_worker, the worker of the --resume pipeline.        *)
(***************************************************************************)
\* the module-level names that are bound while the first __main__ block runs
BoundInFirstBlock == {"init_copy_tracking_tables", "insert_copied_file", "insert_skipped_file",
                      "regenerate_copied_files_from_dest", "print_help", "copyfile", "os",
                      "sqlite3", "logging"}
\* copy_worker (lines 242-278).  The copy branch calls idToPath2, which is
\* defined at line 368 and not yet bound: the NameError is caught at line 271.
\* With the names bound, shutil.copy2 of a source that is not there raises as well.
CopyWorkerOutcome(contentID, copied_set, skipped_set, dry_run, source) ==
    IF contentID \in copied_set THEN "skipped_already"
    ELSE IF contentID \in skipped_set THEN "skipped_problem"
    ELSE IF dry_run THEN "dry_run"
    ELSE IF {"idToPath2", "skipnames", "shutil"} \ BoundInFirstBlock /= {} THEN "errored"
    ELSE IF contentID \notin source THEN "errored"
    ELSE "copied"

(***************************************************************************)
(* The pure functions applied to inputs drawn from the bounded sets.       *)
(***************************************************************************)
\* the indexes idToPath2 is applied to: every parent shape, two names
LegacyNames == {<<"l">>, <<"m">>}
LegacyIndexes == [RecordIds -> [Name : LegacyNames,
                                Parent : {NoneId} \cup RecordIds \cup {AbsentId},
                                contentID : {NoneText}]]

NoRow == [i \in 1..4 |-> NullTs]
NoTree == [st |-> "none", path |-> <<>>]
\* the sets copy_worker reads: already_copied_set, skipped_set, the source blobs
NoSets == [copied |-> {}, skipped |-> {}, source |-> {}, dry_run |-> FALSE]
WorkerCids == {<<"a">>, <<"b">>}
WorkerSets == [copied : SUBSET WorkerCids, skipped : SUBSET WorkerCids,
               source : SUBSET WorkerCids, dry_run : BOOLEAN]
FnIdleIn  == [cid |-> NoneText, store |-> {}, row |-> NoRow, dic |-> <<>>, id |-> NoneId,
              sets |-> NoSets]
FnIdleOut == [done |-> FALSE, path |-> <<>>, ts |-> NullTs, tree |-> NoTree,
              outcome |-> "none"]

FnIdle == fn_call = "none" /\ fn_in = FnIdleIn /\ fn_out = FnIdleOut

FnInit ==
    /\ fn_call \in {"resolve", "mtime", "idToPath2", "copy_worker"}
    /\ \/ /\ fn_call = "resolve"
          /\ fn_in \in [cid : ContentIds \cup {NoneText}, store : Stores, row : {NoRow},
                        dic : {<<>>}, id : {NoneId}, sets : {NoSets}]
       \/ /\ fn_call = "mtime"
          /\ fn_in \in [cid : {NoneText}, store : {{}}, row : TsRows,
                        dic : {<<>>}, id : {NoneId}, sets : {NoSets}]
       \/ /\ fn_call = "idToPath2"
          /\ fn_in \in [cid : {NoneText}, store : {{}}, row : {NoRow},
                        dic : LegacyIndexes, id : RecordIds, sets : {NoSets}]
       \/ /\ fn_call = "copy_worker"
          /\ fn_in \in [cid : WorkerCids \cup {NoneText}, store : {{}}, row : {NoRow},
                        dic : {<<>>}, id : {NoneId}, sets : WorkerSets]
    /\ fn_out = FnIdleOut

ApplyResolve ==
    /\ fn_call = "resolve" /\ ~fn_out.done
    /\ fn_out' = [fn_out EXCEPT !.done = TRUE,
                                !.path = GetSourceFilePath(fn_in.cid, fn_in.store)]
    /\ UNCHANGED <<fn_call, fn_in>>
    /\ UNCHANGED fnFrame

ApplyMtime ==
    /\ fn_call = "mtime" /\ ~fn_out.done
    /\ fn_out' = [fn_out EXCEPT !.done = TRUE, !.ts = TimestampMs(fn_in.row)]
    /\ UNCHANGED <<fn_call, fn_in>>
    /\ UNCHANGED fnFrame

\* idToPath2(fileID) over the global fileDIC
ApplyIdToPath2 ==
    /\ fn_call = "idToPath2" /\ ~fn_out.done
    /\ fn_out' = [fn_out EXCEPT !.done = TRUE, !.tree = IdToPath2(fn_in.dic, fn_in.id)]
    /\ UNCHANGED <<fn_call, fn_in>>
    /\ UNCHANGED fnFrame

\* copy_worker(f) for a row with this contentID, against the sets of the run
ApplyCopyWorker ==
    /\ fn_call = "copy_worker" /\ ~fn_out.done
    /\ fn_out' = [fn_out EXCEPT !.done = TRUE,
                      !.outcome = CopyWorkerOutcome(fn_in.cid, fn_in.sets.copied,
                                      fn_in.sets.skipped, fn_in.sets.dry_run, fn_in.sets.source)]
    /\ UNCHANGED <<fn_call, fn_in>>
    /\ UNCHANGED fnFrame

(***************************************************************************)
(* The volumes.  The destination volume is the set of its regular files,   *)
(* each under its normalized absolute path; dumpdir and filedir are given  *)
(* without a trailing separator.                                           *)
(***************************************************************************)
DumpDir == <<"d">>
FileDir == <<"s">>
FarmDir == <<"f">>

RECURSIVE NormFs(_)
\* the file the operating system resolves a path string to: repeated
\* separators count as one
NormFs(path) ==
    IF Len(path) < 2 THEN path
    ELSE IF path[1] = "/" /\ path[2] = "/" THEN NormFs(Tail(path))
    ELSE <<Head(path)>> \o NormFs(Tail(path))

\* os.path.exists(path) on the destination volume: a file, or a directory above one
DestExists(d, path) ==
    \E f \in d : f.path = NormFs(path) \/ StartsWith(f.path, NormFs(path) \o Slash)

\* the files os.walk(dumpdir) visits
UnderDumpDir(d) == {f \in d : StartsWith(f.path, DumpDir \o Slash)}

RECURSIVE BaseName(_)
\* the last component of a path
BaseName(path) ==
    IF ~Contains(path, Slash) THEN path ELSE BaseName(Tail(path))

RECURSIVE SetToSeq(_)
\* the elements of a finite set in the order a directory walk or a query yields them
SetToSeq(S) ==
    IF S = {} THEN <<>>
    ELSE LET x == CHOOSE y \in S : TRUE IN <<x>> \o SetToSeq(S \ {x})

\* os.path.join(root, file) for a file found by os.walk(filedir)
SourcePath(file) == FileDir \o Slash \o <<Lower(file[1])>> \o Slash \o file

(***************************************************************************)
(* A run of restsdk_public.py.  The module is executed top to bottom: the  *)
(* first __main__ block (lines 158-330) holds the --resume branch, the     *)
(* functions of lines 332-526 are defined after it, and the second         *)
(* __main__ block (lines 528-751) is the legacy pipeline.                  *)
(***************************************************************************)
MaxRuns == 2
ThreadCount == 2

RootRecords == [Name : {<<"auth", "|">>, <<"l">>}, Parent : {NoneId}, contentID : {NoneText}]
FileRecords == [Name : {<<"p">>, <<"q">>}, Parent : {1}, contentID : {<<"a">>, <<"b">>}]
\* the indexes of the runs: a root folder and two file records below it
RunIndexes == {<<r, [Name |-> <<"p">>, Parent |-> 1, contentID |-> <<"a">>], f>> :
                   r \in RootRecords, f \in FileRecords}
\* the source store holds the first file's content, and the second's or not
RunStores == {{<<"a">>}, {<<"a">>, <<"b">>}}

\* the long options the parser of the second __main__ block accepts
SecondParserOptions == {"--dry_run", "--db", "--filedir", "--dumpdir", "--log_file",
                        "--create_log", "--thread-count", "--log_level"}

\* sys.exit(1) after "Missing required arguments"
MissingArgsStatus == 1
\* the status of the traceback that ends the legacy summary: line 694 formats
\* str(filedir_size) with ':.2f', which raises ValueError in every run
LegacyExitStatus == 1
\* the status argparse exits with when the second parser meets --resume
ResumeExitStatus == 2

NoCfg == [mode |-> "none", dry_run |-> FALSE, no_regen |-> FALSE, args_ok |-> TRUE,
          confirm |-> FALSE]
\* created, skipped_no_content, skipped_no_source, errors of create_symlink_farm
ZeroTally == [created |-> 0, skipped_no_content |-> 0, skipped_no_source |-> 0, errors |-> 0]
MainOff == [pc |-> "off", run |-> 0, exit |-> -1, log_set |-> {}, copied_set |-> {},
            skipped_set |-> {}, skipname |-> NoneText, tally |-> ZeroTally]
ZeroCounters == [processed |-> 0, copied |-> 0, skipped |-> 0]
NoHist == [dest0 |-> {}, ledger0 |-> <<<<>>, <<>>>>, copies |-> 0, io_failed |-> {},
           dest1 |-> {}, cfg1 |-> NoCfg, clean1 |-> TRUE, unstarted |-> {}, log0 |-> <<>>]

\* the destination volume before the first run: empty, a file left below
\* dumpdir by an earlier copy, or a regular file where the farm would put a link
InitialDests == {{}} \cup {{[path |-> dir \o Slash \o <<"p">>, cid |-> NoneText,
                             complete |-> TRUE, link |-> FALSE]} : dir \in {DumpDir, FarmDir}}

RunIdle ==
    /\ cfg = NoCfg /\ main = MainOff /\ task = <<>> /\ counters = ZeroCounters
    /\ src_files = {} /\ dest = {} /\ log_lines = <<>> /\ hist = NoHist

RunInit ==
    /\ cfg = NoCfg
    /\ main = [MainOff EXCEPT !.pc = "ready", !.run = 1]
    /\ task = <<>> /\ counters = ZeroCounters
    /\ src_files \in RunStores
    /\ dest \in InitialDests
    /\ log_lines = <<>> /\ hist = NoHist

NewTask(file, rec) ==
    [file |-> file, rec |-> rec, pc |-> "new", newpath |-> <<>>, todo |-> <<>>,
     outcome |-> "none"]

Tasks == 1..Len(task)
Running == {t \in Tasks : task[t].pc \notin {"new", "queued", "done"}}
Finish(t, outcome) == [task EXCEPT ![t].pc = "done", ![t].outcome = outcome]

\* what a run starts from, kept for the properties
HistAtStart == [hist EXCEPT !.dest0 = dest, !.ledger0 = <<copied_files, skipped_files>>,
                            !.copies = 0, !.io_failed = {}, !.log0 = log_lines]
\* what the first run ended with
HistAtExit == IF main.run = 1
              THEN [hist EXCEPT !.dest1 = dest, !.cfg1 = cfg, !.clean1 = (hist.io_failed = {})]
              ELSE hist

\* a required argument is missing: lines 192, 202 and 577 print a message and
\* sys.exit(1)
StartBadArgs ==
    /\ main.pc = "ready"
    /\ \E m \in {"legacy", "resume", "regen"}, d \in BOOLEAN :
          cfg' = [NoCfg EXCEPT !.mode = m, !.dry_run = d, !.args_ok = FALSE]
    /\ main' = [main EXCEPT !.pc = "exited", !.exit = MissingArgsStatus]
    /\ hist' = HistAtStart
    /\ UNCHANGED <<task, counters, src_files, dest, log_lines, copied_files, skipped_files>>
    /\ tables' = InitCopyTrackingTables(Db).tables
    /\ UNCHANGED startFrame

\* lines 528-657: the legacy pipeline loads fileDIC, the log and skipnames
StartLegacy ==
    /\ main.pc = "ready"
    /\ \E d \in BOOLEAN :
          cfg' = [NoCfg EXCEPT !.mode = "legacy", !.dry_run = d]
    /\ main' = [main EXCEPT !.pc = "submit",
                            !.log_set = {log_lines[i] : i \in 1..Len(log_lines)},
                            !.skipname = GetRootDirs(file_dic)]
    /\ task' = [i \in 1..Cardinality(src_files) |-> NewTask(SetToSeq(src_files)[i], NoneId)]
    /\ counters' = ZeroCounters
    /\ hist' = HistAtStart
    /\ UNCHANGED <<src_files, dest, log_lines, copied_files, skipped_files>>
    /\ tables' = InitCopyTrackingTables(Db).tables
    /\ UNCHANGED startFrame

\* regenerate_copied_files_from_dest: the rows added for the files of a walk
RECURSIVE RegenerateRows(_, _, _)
RegenerateRows(table, dic, files) ==
    IF files = <<>> THEN table
    ELSE LET file == BaseName(Head(files))
             hits == {i \in DOMAIN dic : dic[i].Name = file}
             row  == IF hits = {} THEN table
                     ELSE InsertOrIgnore(table,
                              <<CHOOSE i \in hits : \A j \in hits : i <= j, file>>)
         IN  RegenerateRows(row, dic, Tail(files))

\* the destination walk of regenerate_copied_files_from_dest, as paths
WalkDest(d) == SetToSeq({f.path : f \in UnderDumpDir(d)})

\* lines 213-217: the rows of Files with no copied_files row and no skipped_files row
FilesToCopy(dic, copied, skipped) ==
    {i \in DOMAIN dic : /\ RowsWithKey(copied, i) = {}
                        /\ (dic[i].contentID = NoneText
                            \/ RowsWithKey(skipped, dic[i].contentID) = {})}

RECURSIVE SortedIds(_)
SortedIds(S) ==
    IF S = {} THEN <<>>
    ELSE LET m == CHOOSE x \in S : \A y \in S : x <= y IN <<m>> \o SortedIds(S \ {m})

\* lines 199-238: --resume regenerates the ledger and the log from the
\* destination unless --no-regen-log is given, then queries the pending rows
StartResume ==
    /\ main.pc = "ready"
    /\ \E d \in BOOLEAN, n \in BOOLEAN :
          /\ cfg' = [NoCfg EXCEPT !.mode = "resume", !.dry_run = d, !.no_regen = n]
          /\ copied_files' = IF n THEN copied_files
                             ELSE RegenerateRows(copied_files, file_dic, WalkDest(dest))
          /\ log_lines' = IF n THEN log_lines ELSE WalkDest(dest)
    /\ LET pending == SortedIds(FilesToCopy(file_dic, copied_files', skipped_files))
       IN  task' = [i \in 1..Len(pending) |-> NewTask(file_dic[pending[i]].contentID, pending[i])]
    /\ main' = [main EXCEPT !.pc = "submit",
                    !.copied_set = {copied_files'[i][2] : i \in 1..Len(copied_files')},
                    !.skipped_set = {skipped_files[i][1] : i \in 1..Len(skipped_files)}]
    /\ counters' = ZeroCounters
    /\ hist' = HistAtStart
    /\ UNCHANGED <<src_files, dest, skipped_files>>
    /\ tables' = InitCopyTrackingTables(Db).tables
    /\ UNCHANGED startFrame

\* executor.submit of the next item; after the last one the with block waits
Submit ==
    /\ main.pc = "submit"
    /\ IF \E t \in Tasks : task[t].pc = "new"
       THEN LET t == CHOOSE u \in Tasks : task[u].pc = "new" /\ \A v \in Tasks :
                         task[v].pc = "new" => u <= v
            IN  task' = [task EXCEPT ![t].pc = "queued"] /\ UNCHANGED main
       ELSE main' = [main EXCEPT !.pc = "join"] /\ UNCHANGED task
    /\ UNCHANGED <<cfg, counters, src_files, dest, log_lines, hist, copied_files, skipped_files>>
    /\ UNCHANGED runFrame

\* a free worker thread takes the oldest queued item
StartTask(t) ==
    /\ task[t].pc = "queued"
    /\ \A u \in Tasks : task[u].pc = "queued" => t <= u
    /\ Cardinality(Running) < ThreadCount
    /\ task' = [task EXCEPT ![t].pc = IF cfg.mode = "legacy" THEN "lookup" ELSE "work"]
    /\ UNCHANGED <<cfg, main, counters, src_files, dest, log_lines, hist, copied_files, skipped_files>>
    /\ UNCHANGED runFrame

\* copy_file lines 417-430: the lookup of the file and the destination path.
\* skipnames is [filedir, getRootDirs()]; every pass of the loop of line 426
\* starts again from fullpath, so only the last entry takes effect, and
\* str.replace(None, '') raises TypeError outside the try of line 466.
Lookup(t) ==
    /\ task[t].pc = "lookup"
    /\ LET fileID == FilenameToID(file_dic, task[t].file)
       IN  IF fileID = NoneId
           THEN task' = [task EXCEPT ![t].pc = "count", ![t].outcome = "not_in_db",
                                     ![t].todo = <<"processed", "skipped">>]
           ELSE LET fullpath == IdToPath2(file_dic, fileID)
                IN  IF fullpath.st /= "ok" \/ main.skipname = NoneText
                    THEN task' = Finish(t, "crashed")
                    ELSE task' = [task EXCEPT ![t].pc = "check", ![t].newpath =
                                      DumpDir \o RemoveAll(fullpath.path, main.skipname)]
    /\ UNCHANGED <<cfg, main, counters, src_files, dest, log_lines, hist, copied_files, skipped_files>>
    /\ UNCHANGED runFrame

\* the outcome copy_file decides at lines 433-464 for a destination path
Decide(newpath, log_set, d, dry_run) ==
    IF newpath \in log_set THEN "skipped_log"
    ELSE IF DestExists(d, newpath) THEN "skipped_exists"
    ELSE IF dry_run THEN "would_copy"
    ELSE "copy"

\* a skip branch that forgets skipped_files_counter
SkipCountersProcessedOnly == <<"processed">>

\* the counters the two skip branches of lines 433-452 increment, in order
SkipCounters == <<"skipped", "processed">>

\* copy_file lines 433-465: log membership, destination exists, dry run, or copy
Check(t) ==
    /\ task[t].pc = "check"
    /\ LET decision == Decide(task[t].newpath, main.log_set, dest, cfg.dry_run)
       IN  task' = IF decision = "copy" THEN [task EXCEPT ![t].pc = "copy"]
                   ELSE [task EXCEPT ![t].pc = "count", ![t].outcome = decision,
                                     ![t].todo = IF decision = "would_copy"
                                                 THEN <<"processed", "copied">>
                                                 ELSE SkipCounters]
    /\ UNCHANGED <<cfg, main, counters, src_files, dest, log_lines, hist, copied_files, skipped_files>>
    /\ UNCHANGED runFrame

\* the failure left uncaught: the worker's future ends with the exception
CopyFailedUncaught(t) == Finish(t, "crashed")

\* the log line written in a finally clause: after a failed copy too
CopyFailedLogged(t) == [task EXCEPT ![t].pc = "log", ![t].outcome = "errored"]

\* what the except clause of line 480 leaves: a message, no counter, no log line
CopyFailed(t) == Finish(t, "errored")

\* copy_file lines 467-468: makedirs, then copyfile creates or truncates the
\* destination file; either may raise OSError
CopyOpen(t) ==
    /\ task[t].pc = "copy"
    /\ \/ /\ dest' = {f \in dest : f.path /= NormFs(task[t].newpath)}
                        \cup {[path |-> NormFs(task[t].newpath), cid |-> task[t].file,
                               complete |-> FALSE, link |-> FALSE]}
          /\ task' = [task EXCEPT ![t].pc = "write"]
          /\ hist' = [hist EXCEPT !.copies = @ + 1]
       \/ /\ task' = CopyFailed(t)
          /\ hist' = [hist EXCEPT !.io_failed = @ \cup {t}]
          /\ UNCHANGED dest
    /\ UNCHANGED <<cfg, main, counters, src_files, log_lines, copied_files, skipped_files>>
    /\ UNCHANGED runFrame

\* copy_file line 468: copyfile writes the bytes, or fails part way
CopyWrite(t) ==
    /\ task[t].pc = "write"
    /\ \/ /\ dest' = {f \in dest : f.path /= NormFs(task[t].newpath)}
                        \cup {[path |-> NormFs(task[t].newpath), cid |-> task[t].file,
                               complete |-> TRUE, link |-> FALSE]}
          /\ task' = [task EXCEPT ![t].pc = "count", ![t].outcome = "copied",
                                  ![t].todo = <<"processed", "copied">>]
          /\ UNCHANGED hist
       \/ /\ task' = CopyFailed(t)
          /\ hist' = [hist EXCEPT !.io_failed = @ \cup {t}]
          /\ UNCHANGED dest
    /\ UNCHANGED <<cfg, main, counters, src_files, log_lines, copied_files, skipped_files>>
    /\ UNCHANGED runFrame

\* one "with counter.get_lock(): counter.value += 1" of copy_file
IncCounter(t) ==
    /\ task[t].pc = "count" /\ task[t].todo /= <<>>
    /\ counters' = [counters EXCEPT ![Head(task[t].todo)] = @ + 1]
    /\ task' = IF Len(task[t].todo) > 1 THEN [task EXCEPT ![t].todo = Tail(@)]
               ELSE IF task[t].outcome = "copied"
                    THEN [task EXCEPT ![t].todo = <<>>, ![t].pc = "log"]
               ELSE [task EXCEPT ![t].todo = <<>>, ![t].pc = "done"]
    /\ UNCHANGED <<cfg, main, src_files, dest, log_lines, hist, copied_files, skipped_files>>
    /\ UNCHANGED runFrame

\* the log opened with mode 'w': the file is truncated before the line is written
WriteTruncated(lines, line) == <<line>>

\* with open(log_file, 'a') as f: f.write(fullpath + '\n')
WriteAppended(lines, line) == Append(lines, line)

\* copy_file lines 477-479: the source path is appended to the log under the lock
LogAppend(t) ==
    /\ task[t].pc = "log"
    /\ log_lines' = WriteAppended(log_lines, SourcePath(task[t].file))
    /\ task' = [task EXCEPT ![t].pc = "done"]
    /\ UNCHANGED <<cfg, main, counters, src_files, dest, hist, copied_files, skipped_files>>
    /\ UNCHANGED runFrame

\* copy_worker lines 258-263: the destination of a row; skipnames as the second
\* block builds it (filedir, the root directory name), os.path.join drops
\* dumpdir before an absolute rel_path
WorkerDestPath(dic, file_id) ==
    LET rel == ReplaceChar(RemoveAll(RemoveAll(IdToPath2(dic, file_id).path, FileDir),
                                     GetRootDirs(dic)), "|", "-")
    IN  IF rel /= <<>> /\ Head(rel) = "/" THEN rel ELSE DumpDir \o Slash \o rel

\* copy_worker (lines 242-278): the outcome, and after shutil.copy2 the row of
\* insert_copied_file
CopyWorker(t) ==
    /\ task[t].pc = "work"
    /\ LET outcome == CopyWorkerOutcome(task[t].file, main.copied_set,
                                        main.skipped_set, cfg.dry_run, src_files)
           dest_path == NormFs(WorkerDestPath(file_dic, task[t].rec))
       IN  /\ task' = Finish(t, outcome)
           /\ IF outcome = "copied"
              THEN /\ dest' = {f \in dest : f.path /= dest_path}
                                 \cup {[path |-> dest_path, cid |-> task[t].file,
                                        complete |-> TRUE, link |-> FALSE]}
                   /\ copied_files' = InsertCopiedFile(copied_files, task[t].rec, task[t].file)
              ELSE UNCHANGED <<dest, copied_files>>
    /\ UNCHANGED <<cfg, main, counters, src_files, log_lines, hist, skipped_files>>
    /\ UNCHANGED runFrame

AllDone == \A t \in Tasks : task[t].pc = "done"

\* the with block has drained; the legacy summary ends in the ValueError of line 694
JoinLegacy ==
    /\ main.pc = "join" /\ cfg.mode = "legacy" /\ AllDone
    /\ main' = [main EXCEPT !.pc = "exited", !.exit = LegacyExitStatus]
    /\ hist' = HistAtExit
    /\ UNCHANGED <<cfg, task, counters, src_files, dest, log_lines, copied_files, skipped_files>>
    /\ UNCHANGED runFrame

\* lines 285-330 tally and print; control then reaches the second __main__
\* block, whose parser rejects --resume
JoinResume ==
    /\ main.pc = "join" /\ cfg.mode = "resume" /\ AllDone
    /\ main' = [main EXCEPT !.pc = "exited",
                    !.exit = IF "--resume" \in SecondParserOptions THEN 0 ELSE ResumeExitStatus]
    /\ hist' = HistAtExit
    /\ UNCHANGED <<cfg, task, counters, src_files, dest, log_lines, copied_files, skipped_files>>
    /\ UNCHANGED runFrame

\* the script is started again on the same index, source and destination
NextRun ==
    /\ main.pc = "exited" /\ main.run < MaxRuns
    /\ main' = [MainOff EXCEPT !.pc = "ready", !.run = main.run + 1]
    /\ cfg' = NoCfg /\ task' = <<>> /\ counters' = ZeroCounters
    /\ UNCHANGED <<src_files, dest, log_lines, hist, copied_files, skipped_files>>
    /\ UNCHANGED runFrame

\* the status of a Python process ended by an unhandled KeyboardInterrupt
InterruptStatus == 130

\* Ctrl-C while the main thread is inside the with block of the pool (lines
\* 283-294, 673-682): KeyboardInterrupt leaves the block through
\* ThreadPoolExecutor.__exit__, which is shutdown(wait=True) without
\* cancel_futures; nothing more is submitted, the worker threads go on
Interrupt ==
    /\ main.pc \in {"submit", "join"}
    /\ main' = [main EXCEPT !.pc = "interrupted"]
    /\ hist' = [hist EXCEPT !.unstarted = {t \in Tasks : task[t].pc \in {"new", "queued"}}]
    /\ UNCHANGED <<cfg, task, counters, src_files, dest, log_lines, copied_files, skipped_files>>
    /\ UNCHANGED runFrame

\* shutdown(wait=True) returns when the work queue is empty and every worker
\* has returned; the exception then ends the script
ExitInterrupted ==
    /\ main.pc = "interrupted"
    /\ \A t \in Tasks : task[t].pc \in {"new", "done"}
    /\ main' = [main EXCEPT !.pc = "exited", !.exit = InterruptStatus]
    /\ UNCHANGED <<cfg, task, counters, src_files, dest, log_lines, hist, copied_files, skipped_files>>
    /\ UNCHANGED runFrame

\* lines 188-196: --regen-log or --create_log regenerates the ledger and the log
\* from the destination and ends the script with sys.exit(0)
StartRegen ==
    /\ main.pc = "ready"
    /\ cfg' = [NoCfg EXCEPT !.mode = "regen"]
    /\ copied_files' = RegenerateRows(copied_files, file_dic, WalkDest(dest))
    /\ log_lines' = WalkDest(dest)
    /\ main' = [main EXCEPT !.pc = "exited", !.exit = 0]
    /\ hist' = [HistAtStart EXCEPT !.cfg1 = IF main.run = 1 THEN cfg' ELSE @,
                                   !.dest1 = IF main.run = 1 THEN dest ELSE @]
    /\ UNCHANGED <<task, counters, src_files, dest, skipped_files>>
    /\ tables' = InitCopyTrackingTables(Db).tables
    /\ UNCHANGED startFrame

(***************************************************************************)
(* regenerate_copied_files_from_dest (lines 125-156) one statement a step: *)
(* one connection, one INSERT OR IGNORE per destination file that matches  *)
(* a name of Files, one commit after the walk.                             *)
(***************************************************************************)
\* copied_files before the call: empty, rows of insert_copied_file
\* (file_id, contentID), a row of an earlier regeneration (file_id, name)
RegenTables == {<<>>, << <<2, <<"a">> >> >>, << <<3, <<"b">> >>, <<2, <<"a">> >> >>,
                << <<2, <<"p">> >> >>}

\* the files below dumpdir before the call
RegenFiles == {DumpDir \o Slash \o <<"p">>, DumpDir \o Slash \o <<"q">>,
               DumpDir \o Slash \o <<"x">> \o Slash \o <<"p">>,
               DumpDir \o Slash \o <<"z">>}
RegenDests == {{[path |-> f, cid |-> NoneText, complete |-> TRUE, link |-> FALSE] : f \in F} :
                   F \in SUBSET RegenFiles}

RECURSIVE InsertAll(_, _)
\* the table after the INSERT OR IGNORE statements of a committed transaction
InsertAll(table, rows) ==
    IF rows = <<>> THEN table ELSE InsertAll(InsertOrIgnore(table, Head(rows)), Tail(rows))

RegenInit ==
    /\ copied_files \in RegenTables /\ skipped_files = <<>> /\ ledger_calls = <<>>
    /\ tables = AllTables /\ regen = RegenOff
    /\ file_dic \in RunIndexes
    /\ cfg = NoCfg /\ main = MainOff /\ task = <<>> /\ counters = ZeroCounters
    /\ src_files = {} /\ dest \in RegenDests /\ log_lines = <<>> /\ hist = NoHist

\* lines 131-136: sqlite3.connect, open(tmp_log, 'w'), os.walk(dumpdir)
RegenOpen ==
    /\ regen.pc = "off"
    /\ regen' = [pc |-> "walk", todo |-> WalkDest(dest), tmp_log |-> <<>>, txn |-> <<>>]
    /\ hist' = HistAtStart
    /\ UNCHANGED <<copied_files, skipped_files, ledger_calls, tables, file_dic>>
    /\ UNCHANGED <<cfg, main, task, counters, src_files, dest, log_lines>>
    /\ UNCHANGED <<fnVars, walkVars, restore, farms, sync>>

\* lines 138-150, one file of the walk: the line of the tmp log, SELECT id FROM
\* Files WHERE name = ?, and for a match the INSERT OR IGNORE, not yet committed
RegenFile ==
    /\ regen.pc = "walk" /\ regen.todo /= <<>>
    /\ LET file_path == Head(regen.todo)
           file == BaseName(file_path)
           hits == {i \in DOMAIN file_dic : file_dic[i].Name = file}
           file_id == IF hits = {} THEN NoneId ELSE CHOOSE i \in hits : \A j \in hits : i <= j
       IN  regen' = [regen EXCEPT !.todo = Tail(@), !.tmp_log = Append(@, file_path),
                                  !.txn = IF file_id /= NoneId THEN Append(@, <<file_id, file>>)
                                          ELSE @]
    /\ UNCHANGED <<copied_files, skipped_files, ledger_calls, tables, file_dic>>
    /\ UNCHANGED <<cfg, main, task, counters, src_files, dest, log_lines, hist>>
    /\ UNCHANGED <<fnVars, walkVars, restore, farms, sync>>

\* lines 153-155: conn.commit(), conn.close(), os.replace(tmp_log, log_file)
RegenCommit ==
    /\ regen.pc = "walk" /\ regen.todo = <<>>
    /\ copied_files' = InsertAll(copied_files, regen.txn)
    /\ log_lines' = regen.tmp_log
    /\ regen' = [regen EXCEPT !.pc = "done", !.txn = <<>>]
    /\ UNCHANGED <<skipped_files, ledger_calls, tables, file_dic>>
    /\ UNCHANGED <<cfg, main, task, counters, src_files, dest, hist>>
    /\ UNCHANGED <<fnVars, walkVars, restore, farms, sync>>

(***************************************************************************)
(* A run of create_symlink_farm.py: main and create_symlink_farm.  The     *)
(* farm is the part of the destination volume below FarmDir; the source    *)
(* store keeps every blob in its shard.                                    *)
(***************************************************************************)
\* sys.exit(1) after "Database not found" or "Source directory not found"
FarmPreconditionStatus == 1

\* the source directory as get_source_file_path sees it
FarmStore(files) == {ShardedPath(Lower(c[1]), c) : c \in files}

\* os.listdir(args.farm) is not empty
FarmNotEmpty(d) == \E f \in d : StartsWith(f.path, FarmDir \o Slash)

RECURSIVE ParentLoop(_, _, _, _)
\* the while loop of reconstruct_path run to its end; "hang" when it has none
ParentLoop(dic, current, parts, fuel) ==
    IF current = NoneId \/ current \notin DOMAIN dic THEN [st |-> "ok", parts |-> parts]
    ELSE IF fuel = 0 THEN [st |-> "hang", parts |-> <<>>]
    ELSE ParentLoop(dic, dic[current].Parent, InsertFront(parts, dic[current].Name), fuel - 1)

\* reconstruct_path(file_id, file_dic, root_dir_to_strip): [st, isNone, path]
ReconstructPath(file_id, dic, root_dir_to_strip) ==
    IF file_id \notin DOMAIN dic THEN [st |-> "ok", isNone |-> TRUE, path |-> <<>>]
    ELSE LET walk == ParentLoop(dic, dic[file_id].Parent, <<dic[file_id].Name>>,
                                Cardinality(DOMAIN dic))
             full == AssemblePath(walk.parts, root_dir_to_strip)
         IN  IF walk.st = "hang" THEN [st |-> "hang", isNone |-> TRUE, path |-> <<>>]
             ELSE [st |-> "ok", isNone |-> (full = <<>>), path |-> full]

\* sanitize_path(path, sanitize_pipes)
SanitizePath(path, sanitize_pipes) ==
    IF sanitize_pipes THEN ReplaceChar(path, "|", "-") ELSE path

\* "return 0" at the end of main, whatever was counted
MainStatusZero(errors) == 0

\* the last line of main: return 0 if errors == 0 else 1
MainStatus(errors) == IF errors = 0 THEN 0 ELSE 1

\* main lines 278-305: the arguments, the validation of the inputs, the prompt
FarmStart ==
    /\ main.pc = "ready"
    /\ \E ok \in BOOLEAN, d \in BOOLEAN, y \in BOOLEAN :
          cfg' = [NoCfg EXCEPT !.mode = "farm", !.dry_run = d, !.args_ok = ok, !.confirm = y]
    /\ IF ~cfg'.args_ok
       THEN /\ main' = [main EXCEPT !.pc = "exited", !.exit = FarmPreconditionStatus]
            /\ UNCHANGED task
       ELSE IF FarmNotEmpty(dest) /\ ~cfg'.confirm
       THEN /\ main' = [main EXCEPT !.pc = "exited", !.exit = 0]
            /\ UNCHANGED task
       ELSE /\ main' = [main EXCEPT !.pc = "farm", !.tally = ZeroTally]
            /\ task' = [i \in DOMAIN file_dic |-> NewTask(file_dic[i].contentID, i)]
    /\ hist' = [HistAtStart EXCEPT !.cfg1 = IF main.run = 1 THEN cfg' ELSE @,
                                   !.dest1 = IF main.run = 1 THEN dest ELSE @]
    /\ counters' = ZeroCounters
    /\ UNCHANGED <<src_files, dest, log_lines, copied_files, skipped_files>>
    /\ UNCHANGED runFrame

\* the farm after os.symlink(source_path, farm_path), an existing link removed
Linked(d, farm_path, content_id) ==
    {f \in d : f.path /= farm_path}
        \cup {[path |-> farm_path, cid |-> content_id, complete |-> TRUE, link |-> TRUE]}

\* one pass of the loop of create_symlink_farm (lines 211-273) for record t
FarmRecord(t) ==
    /\ main.pc = "farm" /\ task[t].pc = "new"
    /\ \A u \in Tasks : task[u].pc = "new" => t <= u
    /\ LET content_id  == task[t].file
           source_path == GetSourceFilePath(content_id, FarmStore(src_files))
           rel         == ReconstructPath(task[t].rec, file_dic, FindRootDirName(file_dic))
           farm_path   == FarmDir \o Slash \o SanitizePath(rel.path, FALSE)
           Count(field, outcome) ==
               /\ main' = [main EXCEPT !.tally[field] = @ + 1]
               /\ task' = Finish(t, outcome)
       IN  IF content_id = NoneText
           THEN Count("skipped_no_content", "no_content") /\ UNCHANGED <<dest, hist>>
           ELSE IF source_path = <<>>
           THEN Count("skipped_no_source", "no_source") /\ UNCHANGED <<dest, hist>>
           ELSE IF rel.st = "hang"
           THEN /\ task' = [task EXCEPT ![t].pc = "hung"]
                /\ UNCHANGED <<main, dest, hist>>
           ELSE IF rel.isNone
           THEN Count("errors", "errored") /\ UNCHANGED <<dest, hist>>
           ELSE IF cfg.dry_run
           THEN Count("created", "created") /\ UNCHANGED <<dest, hist>>
           ELSE \/ \* makedirs, remove or symlink raises OSError
                   /\ Count("errors", "errored")
                   /\ hist' = [hist EXCEPT !.io_failed = @ \cup {t}]
                   /\ UNCHANGED dest
                \/ /\ UNCHANGED hist
                   /\ IF \E f \in dest : f.path = farm_path /\ f.link
                      THEN /\ dest' = Linked(dest, farm_path, content_id)
                           /\ Count("created", "created")
                      ELSE IF DestExists(dest, farm_path)
                      THEN /\ task' = Finish(t, "real_exists")
                           /\ UNCHANGED <<main, dest>>
                      ELSE /\ dest' = Linked(dest, farm_path, content_id)
                           /\ Count("created", "created")
    /\ UNCHANGED <<cfg, counters, src_files, log_lines, copied_files, skipped_files>>
    /\ UNCHANGED runFrame

\* main lines 315-343: the summary and the status returned to sys.exit
FarmExit ==
    /\ main.pc = "farm" /\ AllDone
    /\ main' = [main EXCEPT !.pc = "exited", !.exit = MainStatus(main.tally.errors)]
    /\ hist' = HistAtExit
    /\ UNCHANGED <<cfg, task, counters, src_files, dest, log_lines, copied_files, skipped_files>>
    /\ UNCHANGED runFrame

(***************************************************************************)
(* run_restore (rsync_restore.py lines 619-735): the preflight, the farm,  *)
(* the first run_rsync and the retry loop, the summary.  A call of         *)
(* run_rsync ends with a return code and with or without lines that hold   *)
(* 'error' or 'failed'; every such line is also kept by the monitor.       *)
(***************************************************************************)
MaxRetryCount == 2

\* what run_rsync returns as its code: process.returncode 0, a failure (the
\* `return 1` of line 487 stands for every other code), 130 after Ctrl-C
RsyncCodes == {0, 1, 130}

RestoreOff == [pc |-> "off", dry_run |-> FALSE, retry_count |-> 0, attempt |-> 0,
               runs |-> <<>>, monitor_errors |-> FALSE, exit |-> -1]
RestoreIdle == restore = RestoreOff

\* restore after a call run_rsync(..., dry_run) that returned (rc, errors);
\* lines says that an output line held 'error' or 'failed', which is what
\* parse_rsync_progress hands to monitor.add_error (lines 411-413, 336-339)
AfterRsync(r, dry_run, rc, errors, lines) ==
    [r EXCEPT !.runs = Append(@, [rc |-> rc, errors |-> errors, dry_run |-> dry_run]),
              !.monitor_errors = @ \/ lines]

\* what one run_rsync can return: error lines are in errors and in the monitor
\* (lines 471-476); the `except Exception` of lines 484-487 returns 1 with
\* str(e) in errors only; Ctrl-C returns 130 with the lines read so far
RsyncReturns ==
    { o \in [rc : RsyncCodes, errors : BOOLEAN, lines : BOOLEAN] :
         /\ o.lines => o.errors
         /\ (o.errors /\ ~o.lines) => o.rc = 1 }

\* the retry test without its dry-run clause
RetryWantedEvenDry(errors, retry_count, dry_run) == errors /\ retry_count > 0

\* line 689: if errors and retry_count > 0 and not dry_run
RetryWanted(errors, retry_count, dry_run) == errors /\ retry_count > 0 /\ ~dry_run

\* lines 635-639: run_preflight; a failed check returns 1
RestoreStart ==
    /\ restore.pc = "off"
    /\ \E d \in BOOLEAN, n \in 0..MaxRetryCount, checks_passed \in BOOLEAN :
          restore' = IF checks_passed
                     THEN [restore EXCEPT !.pc = "farm", !.dry_run = d, !.retry_count = n]
                     ELSE [restore EXCEPT !.pc = "done", !.dry_run = d, !.retry_count = n,
                                          !.exit = 1]
    /\ UNCHANGED restoreFrame

\* lines 641-666: the farm is built, kept or skipped; then the monitor starts
RestoreFarm ==
    /\ restore.pc = "farm"
    /\ restore' = [restore EXCEPT !.pc = "rsync"]
    /\ UNCHANGED restoreFrame

\* lines 675-689: the first run_rsync and the test that opens the retry loop
RsyncFirst ==
    /\ restore.pc = "rsync"
    /\ \E o \in RsyncReturns :
          LET r == AfterRsync(restore, restore.dry_run, o.rc, o.errors, o.lines)
          IN  restore' = IF RetryWanted(o.errors, r.retry_count, r.dry_run)
                         THEN [r EXCEPT !.pc = "retry", !.attempt = 0]
                         ELSE [r EXCEPT !.pc = "summary"]
    /\ UNCHANGED restoreFrame

\* lines 691-702: one pass of `for attempt in range(retry_count)`
RsyncRetry ==
    /\ restore.pc = "retry"
    /\ \E o \in RsyncReturns :
          LET r == AfterRsync(restore, FALSE, o.rc, o.errors, o.lines)
          IN  restore' = IF ~o.errors \/ r.attempt + 1 >= r.retry_count
                         THEN [r EXCEPT !.pc = "summary"]
                         ELSE [r EXCEPT !.attempt = @ + 1]
    /\ UNCHANGED restoreFrame

\* lines 704-735: monitor.stop, the summary, and
\* return 0 if return_code == 0 and not monitor.errors else 1
RestoreSummary ==
    /\ restore.pc = "summary"
    /\ LET return_code == restore.runs[Len(restore.runs)].rc
       IN  restore' = [restore EXCEPT !.pc = "done",
                           !.exit = IF return_code = 0 /\ ~restore.monitor_errors THEN 0 ELSE 1]
    /\ UNCHANGED restoreFrame

(***************************************************************************)
(* The two farm builders side by side: create_symlink_farm                 *)
(* (create_symlink_farm.py) and create_symlink_farm_streaming              *)
(* (rsync_restore.py), each over its own empty farm directory, the same    *)
(* index, the same source directory and the same sanitize_pipes.  A farm   *)
(* is the set of its symlinks [path, target]; its directories are the      *)
(* prefixes of their paths.                                                *)
(***************************************************************************)
FolderRecords == [Name : {<<"l">>, <<"auth", "|">>}, Parent : {NoneId}, contentID : {NoneText}]
BlobRecords == [Name : {<<"p">>, <<"\\", "p">>, <<"p", "|">>}, Parent : {NoneId, 1},
                contentID : {<<"a">>, <<"A">>}]
\* the indexes the builders are compared on: a folder and two file records
FarmIndexes == {<<r, f, g>> : r \in FolderRecords, f \in BlobRecords, g \in BlobRecords}
\* the source directories: each blob in a shard named in lower or upper case
FarmStores == {{ShardedPath("a", <<"a">>)},
               {ShardedPath("a", <<"a">>), ShardedPath("a", <<"A">>)},
               {ShardedPath("a", <<"a">>), ShardedPath("A", <<"A">>)},
               {FlatPath(<<"a">>), FlatPath(<<"A">>)}}

FarmsOff == [pc |-> "off", dic |-> <<>>, store |-> {}, sanitize_pipes |-> FALSE,
             i |-> 1, farm |-> {}, j |-> 1, farm_streaming |-> {}]
FarmsIdle == farms = FarmsOff

FarmsInit ==
    /\ farms \in [pc : {"build"}, dic : FarmIndexes, store : FarmStores,
                  sanitize_pipes : BOOLEAN, i : {1}, farm : {{}}, j : {1},
                  farm_streaming : {{}}]

\* the try block both builders share (create_symlink_farm.py lines 250-264,
\* rsync_restore.py lines 591-602): makedirs raises when a component of the
\* directory is a link; a link at farm_path is replaced; anything else found
\* there is left alone
FarmLink(farm, rel_path, source_path) ==
    IF \E f \in farm : StartsWith(rel_path, f.path \o Slash) THEN farm
    ELSE IF \E f \in farm : f.path = rel_path
         THEN {f \in farm : f.path /= rel_path}
                  \cup {[path |-> rel_path, target |-> source_path]}
    ELSE IF \E f \in farm : StartsWith(f.path, rel_path \o Slash) THEN farm
    ELSE farm \cup {[path |-> rel_path, target |-> source_path]}

\* name LIKE '%auth%|%': the marker, and a bar somewhere behind it
LikeAuthBar(name) ==
    \E a \in 1..Len(name), b \in 1..Len(name) : a < b /\ name[a] = "auth" /\ name[b] = "|"

\* SELECT name FROM files WHERE name LIKE '%auth%|%' LIMIT 1, <<>> for no row
StreamingRootDir(dic) ==
    LET hits == {i \in DOMAIN dic : LikeAuthBar(dic[i].Name)}
    IN  IF hits = {} THEN NoneText
        ELSE dic[CHOOSE i \in hits : \A k \in hits : i <= k].Name

\* rsync_restore.py lines 553-570: the parent walk over parent_lookup, the
\* join, the root removal, lstrip and the pipes; backslashes stay
StreamingPath(file_id, dic, root_dir_to_strip, sanitize_pipes) ==
    LET walk     == ParentLoop(dic, dic[file_id].Parent, <<dic[file_id].Name>>,
                               Cardinality(DOMAIN dic))
        joined   == Join(walk.parts, Slash)
        stripped == IF root_dir_to_strip /= NoneText
                    THEN RemoveAll(RemoveAll(joined, root_dir_to_strip \o Slash),
                                   root_dir_to_strip)
                    ELSE joined
    IN  SanitizePath(LStrip(stripped, "/"), sanitize_pipes)

\* rsync_restore.py lines 575-583: the first existing candidate of
\* [source_dir/content_id[0]/content_id, source_dir/content_id], <<>> for None
StreamingSourcePath(content_id, store) ==
    IF PathExists(store, ShardedPath(content_id[1], content_id))
    THEN ShardedPath(content_id[1], content_id)
    ELSE IF PathExists(store, FlatPath(content_id)) THEN FlatPath(content_id)
    ELSE <<>>

\* one pass of the loop of create_symlink_farm (lines 211-273), not a dry run
FarmPass ==
    /\ farms.pc = "build" /\ farms.i <= Len(farms.dic)
    /\ LET content_id  == farms.dic[farms.i].contentID
           source_path == GetSourceFilePath(content_id, farms.store)
           rel         == ReconstructPath(farms.i, farms.dic, FindRootDirName(farms.dic))
           rel_path    == SanitizePath(rel.path, farms.sanitize_pipes)
       IN  farms' = [farms EXCEPT !.i = @ + 1,
                        !.farm = IF content_id = NoneText \/ source_path = <<>> \/ rel.isNone
                                 THEN @
                                 ELSE FarmLink(@, rel_path, source_path)]
    /\ UNCHANGED farmsFrame

\* one pass of the loop of create_symlink_farm_streaming (lines 540-605) over
\* the rows WHERE contentID IS NOT NULL
StreamingPass ==
    /\ farms.pc = "build" /\ farms.j <= Len(farms.dic)
    /\ LET content_id  == farms.dic[farms.j].contentID
           rel_path    == StreamingPath(farms.j, farms.dic, StreamingRootDir(farms.dic),
                                        farms.sanitize_pipes)
           source_path == IF content_id = NoneText THEN <<>>
                          ELSE StreamingSourcePath(content_id, farms.store)
       IN  farms' = [farms EXCEPT !.j = @ + 1,
                        !.farm_streaming =
                            IF content_id = NoneText \/ rel_path = <<>> \/ source_path = <<>>
                            THEN @
                            ELSE FarmLink(@, rel_path, source_path)]
    /\ UNCHANGED farmsFrame

\* both builders have returned
FarmsBuilt ==
    /\ farms.pc = "build" /\ farms.i > Len(farms.dic) /\ farms.j > Len(farms.dic)
    /\ farms' = [farms EXCEPT !.pc = "done"]
    /\ UNCHANGED farmsFrame

(***************************************************************************)
(* sync_mtime.py: sync_mtimes over the rows of get_file_info_streaming,    *)
(* run after a copy step has filled the destination and copied_files.  A   *)
(* run may be interrupted and started again with the --resume-from value   *)
(* it printed.                                                             *)
(***************************************************************************)
\* the timestamp columns of a Files row: none, cTime only, a text imageDate
\* before a float videoDate
SyncTsRows == {NoRow,
               <<NullTs, NullTs, <<"int", 5>>, NullTs>>,
               <<<<"text", 9>>, <<"real", 7>>, NullTs, NullTs>>}

SyncOff == [pc |-> "off", at |-> "fetch", run |-> 0, dry_run |-> FALSE, meta |-> <<>>,
            written |-> <<>>, rows |-> <<>>, total |-> 0, resume_from |-> 0,
            printed |-> -1, touched |-> {}, past |-> <<{}, {}>>]
SyncIdle == sync = SyncOff

\* the records of the index that are files
BlobIds(dic) == {i \in DOMAIN dic : dic[i].contentID /= NoneText}

\* a regular file of the destination volume
DestFile(path, content_id) ==
    [path |-> path, cid |-> content_id, complete |-> TRUE, link |-> FALSE]

RECURSIVE WorkerRows(_, _, _)
\* the rows copy_worker leaves: insert_copied_file(args.db, file_id, contentID)
WorkerRows(table, dic, ids) ==
    IF ids = <<>> THEN table
    ELSE WorkerRows(InsertCopiedFile(table, Head(ids), dic[Head(ids)].contentID),
                    dic, Tail(ids))

\* the destination and the ledger as a copy step leaves them: the copy branch
\* of copy_worker (restsdk_public.py lines 258-264), or files below dumpdir
\* and regenerate_copied_files_from_dest (lines 125-156) over them
SyncInit ==
    /\ file_dic \in RunIndexes
    /\ skipped_files = <<>> /\ ledger_calls = <<>> /\ tables = AllTables /\ regen = RegenOff
    /\ cfg = NoCfg /\ main = MainOff /\ task = <<>> /\ counters = ZeroCounters
    /\ src_files = {} /\ log_lines = <<>> /\ hist = NoHist
    /\ \E how \in {"copy_worker", "regenerate"} :
          LET written == [i \in DOMAIN file_dic |->
                            IF i \notin BlobIds(file_dic) THEN <<>>
                            ELSE IF how = "copy_worker"
                                 THEN NormFs(WorkerDestPath(file_dic, i))
                            ELSE NormFs(DumpDir \o Slash
                                   \o ReconstructPath(i, file_dic, FindRootDirName(file_dic)).path)]
          IN  /\ dest = {DestFile(written[i], file_dic[i].contentID) : i \in BlobIds(file_dic)}
              /\ copied_files = IF how = "copy_worker"
                                THEN WorkerRows(<<>>, file_dic, SortedIds(BlobIds(file_dic)))
                                ELSE RegenerateRows(<<>>, file_dic, WalkDest(dest))
              /\ sync \in [pc : {"ready"}, at : {"fetch"}, run : {0}, dry_run : {FALSE},
                            meta : [DOMAIN file_dic -> SyncTsRows], written : {written},
                            rows : {<<>>}, total : {0}, resume_from : {0}, printed : {-1},
                            touched : {{}}, past : {<<{}, {}>>}]
              /\ sync.meta[1] = NoRow

\* the rows of the query of lines 77-90 in its order, each with the timestamp
\* of lines 98-103: <<file_id, relative_path, timestamp_ms>>
FileInfoRows(copied, dic, meta) ==
    LET ids == SortedIds({copied[k][1] : k \in 1..Len(copied)} \cap DOMAIN dic)
    IN  [n \in 1..Len(ids) |->
            LET k == CHOOSE r \in 1..Len(copied) : copied[r][1] = ids[n]
            IN  <<ids[n], copied[k][2], TimestampMs(meta[ids[n]])>>]

\* new_mtime = timestamp_ms / 1000, as a fraction
MtimeSeconds(ts) == [num |-> ts[2], den |-> 1000]

\* the resume test that also skips the row the interrupted run stopped at
AtOrBeforeResumePoint(total, resume_from) == total <= resume_from

\* line 176: if stats['total'] < resume_from
BeforeResumePoint(total, resume_from) == total < resume_from

\* main: sync_mtimes(db, dest, dry_run, verbose, resume_from = 0)
SyncStart ==
    /\ sync.pc = "ready"
    /\ \E d \in BOOLEAN :
          sync' = [sync EXCEPT !.pc = "loop", !.at = "fetch", !.run = 1, !.dry_run = d,
                               !.rows = FileInfoRows(copied_files, file_dic, sync.meta),
                               !.total = 0, !.resume_from = 0]
    /\ UNCHANGED syncFrame

\* lines 172-173: the generator yields the next row, stats['total'] += 1
SyncFetch ==
    /\ sync.pc = "loop" /\ sync.at = "fetch" /\ sync.total < Len(sync.rows)
    /\ sync' = [sync EXCEPT !.total = @ + 1, !.at = "row"]
    /\ UNCHANGED syncFrame

\* lines 175-223 for the row just fetched: the resume test, no timestamp,
\* not found, update_mtime
SyncRow ==
    /\ sync.pc = "loop" /\ sync.at = "row"
    /\ LET row       == sync.rows[sync.total]
           dest_path == NormFs(DumpDir \o Slash \o row[2])
       IN  sync' =
             IF BeforeResumePoint(sync.total, sync.resume_from)
             THEN [sync EXCEPT !.at = "fetch"]
             ELSE [sync EXCEPT !.at = "fetch",
                      !.past[sync.run] = @ \cup {sync.total},
                      !.touched = IF row[3] = NullTs \/ ~DestExists(dest, dest_path)
                                     \/ sync.dry_run
                                  THEN @
                                  ELSE @ \cup {<<dest_path, MtimeSeconds(row[3])>>}]
    /\ UNCHANGED syncFrame

\* lines 225-227: KeyboardInterrupt in the loop; "Resume from: --resume-from
\* {stats['total']}" is printed and the summary follows
SyncInterrupt ==
    /\ sync.pc = "loop" /\ sync.run = 1
    /\ sync' = [sync EXCEPT !.pc = "interrupted", !.printed = sync.total]
    /\ UNCHANGED syncFrame

\* the operator runs it again with --resume-from set to the number printed
SyncResume ==
    /\ sync.pc = "interrupted"
    /\ sync' = [sync EXCEPT !.pc = "loop", !.at = "fetch", !.run = 2,
                            !.rows = FileInfoRows(copied_files, file_dic, sync.meta),
                            !.total = 0, !.resume_from = sync.printed]
    /\ UNCHANGED syncFrame

\* the generator is exhausted: lines 229-250, the summary
SyncSummary ==
    /\ sync.pc = "loop" /\ sync.at = "fetch" /\ sync.total = Len(sync.rows)
    /\ sync' = [sync EXCEPT !.pc = "done"]
    /\ UNCHANGED syncFrame

(***************************************************************************)
(* Specifications                                                          *)
(***************************************************************************)
InitFn == FnInit /\ RestoreIdle /\ SyncIdle /\ FarmsIdle /\ LedgerIdle /\ PathIdle /\ RunIdle
NextFn ==
    \/ ApplyResolve
    \/ ApplyMtime
    \/ ApplyIdToPath2
    \/ ApplyCopyWorker
SpecFn == InitFn /\ [][NextFn]_vars

InitLedger == FnIdle /\ RestoreIdle /\ SyncIdle /\ FarmsIdle /\ LedgerInit /\ PathIdle /\ RunIdle
NextLedger ==
    \/ InitTables
    \/ MarkCopied
    \/ MarkCopiedLocked
    \/ MarkSkipped
SpecLedger == InitLedger /\ [][NextLedger]_vars

WalkOff ==
    /\ root_dir = NoneText /\ rp_pc = "off" /\ rp_id = NoneId /\ current_id = NoneId
    /\ path_parts = <<>> /\ rp_steps = 0 /\ rp_result = RpNone

InitRegen == FnIdle /\ RestoreIdle /\ SyncIdle /\ FarmsIdle /\ WalkOff /\ RegenInit
NextRegen ==
    \/ RegenOpen
    \/ RegenFile
    \/ RegenCommit
SpecRegen == InitRegen /\ [][NextRegen]_vars

InitRestore == FnIdle /\ LedgerIdle /\ WalkOff /\ file_dic = <<>> /\ RunIdle /\ RestoreIdle /\ SyncIdle /\ FarmsIdle
NextRestore ==
    \/ RestoreStart
    \/ RestoreFarm
    \/ RsyncFirst
    \/ RsyncRetry
    \/ RestoreSummary
SpecRestore == InitRestore /\ [][NextRestore]_vars

InitFarms == FnIdle /\ LedgerIdle /\ WalkOff /\ file_dic = <<>> /\ RunIdle /\ RestoreIdle /\ SyncIdle /\ FarmsInit
NextFarms ==
    \/ FarmPass
    \/ StreamingPass
    \/ FarmsBuilt
SpecFarms == InitFarms /\ [][NextFarms]_vars

InitSync == FnIdle /\ RestoreIdle /\ FarmsIdle /\ WalkOff /\ SyncInit
NextSync ==
    \/ SyncStart
    \/ SyncFetch
    \/ SyncRow
    \/ SyncInterrupt
    \/ SyncResume
    \/ SyncSummary
SpecSync == InitSync /\ [][NextSync]_vars

InitPath == FnIdle /\ RestoreIdle /\ SyncIdle /\ FarmsIdle /\ LedgerIdle /\ PathInit /\ RunIdle
NextPath ==
    \/ RpStart
    \/ RpLoop
    \/ RpReturn
SpecPath == InitPath /\ [][NextPath]_vars

Init ==
    /\ FnIdle /\ RestoreIdle /\ SyncIdle /\ FarmsIdle /\ WalkOff /\ RunInit
    /\ file_dic \in RunIndexes
    /\ copied_files = <<>> /\ ledger_calls = <<>> /\ tables = AllTables
    /\ regen = RegenOff
    /\ skipped_files \in {<<>>, <<<<<<"b">>, "missing">>>>}
Next ==
    \/ StartBadArgs
    \/ StartLegacy
    \/ StartResume
    \/ StartRegen
    \/ Submit
    \/ \E t \in Tasks : StartTask(t)
    \/ \E t \in Tasks : Lookup(t)
    \/ \E t \in Tasks : Check(t)
    \/ \E t \in Tasks : CopyOpen(t)
    \/ \E t \in Tasks : CopyWrite(t)
    \/ \E t \in Tasks : IncCounter(t)
    \/ \E t \in Tasks : LogAppend(t)
    \/ \E t \in Tasks : CopyWorker(t)
    \/ JoinLegacy
    \/ JoinResume
    \/ FarmStart
    \/ \E t \in Tasks : FarmRecord(t)
    \/ FarmExit
    \/ NextRun
Spec == Init /\ [][Next]_vars

\* one run of a copy pipeline that the operator may interrupt
NextCancel ==
    \/ StartLegacy
    \/ StartResume
    \/ Submit
    \/ \E t \in Tasks : StartTask(t)
    \/ \E t \in Tasks : Lookup(t)
    \/ \E t \in Tasks : Check(t)
    \/ \E t \in Tasks : CopyOpen(t)
    \/ \E t \in Tasks : CopyWrite(t)
    \/ \E t \in Tasks : IncCounter(t)
    \/ \E t \in Tasks : LogAppend(t)
    \/ \E t \in Tasks : CopyWorker(t)
    \/ JoinLegacy
    \/ JoinResume
    \/ Interrupt
    \/ ExitInterrupted
SpecCancel == Init /\ [][NextCancel]_vars

(***************************************************************************)
(* Claims about the path reconstructor (SpecPath)                          *)
(***************************************************************************)
RECURSIVE UpChain(_, _, _)
\* the ids from the root down to id, following Parent; a 0 in it marks a
\* chain that dangles or does not reach a root within fuel steps (a cycle)
UpChain(dic, id, fuel) ==
    IF id = NoneId THEN <<>>
    ELSE IF id \notin DOMAIN dic \/ fuel = 0 THEN <<0>>
    ELSE Append(UpChain(dic, dic[id].Parent, fuel - 1), id)

RpChain == UpChain(file_dic, rp_id, MaxRecords)
\* the chain of rp_id is acyclic and ends at a null-parent root
RpWellFormed == rp_id \in DOMAIN file_dic /\ \A i \in 1..Len(RpChain) : RpChain[i] /= 0
RpChainNames == [i \in 1..Len(RpChain) |-> file_dic[RpChain[i]].Name]
RpHasBackslash == \E i \in 1..Len(RpChain) : Contains(RpChainNames[i], <<"\\">>)

\* C3 as stated: for a record whose chain is acyclic and ends at a root, with no
\* synthetic root detected, reconstruct_path returns exactly the names from the
\* root down to the record joined by '/'.
C3_NamesJoinedVerbatim ==
    (rp_pc = "done" /\ RpWellFormed /\ root_dir = NoneText)
        => rp_result = RpPath(Join(RpChainNames, Slash))

\* C3 amended: the returned path is the root-to-leaf join of the names with every
\* backslash replaced by '/' and the leading '/' characters removed, and None
\* exactly when nothing is left.
C3_NamesJoinedNormalized ==
    (rp_pc = "done" /\ RpWellFormed /\ root_dir = NoneText)
        => LET expected == LStrip(ReplaceChar(Join(RpChainNames, Slash), "\\", "/"), "/")
           IN  rp_result = IF expected = <<>> THEN RpNone ELSE RpPath(expected)

\* a root -> dir -> file chain has been reconstructed, one name holding a backslash
C3_Witness ==
    /\ rp_pc = "done" /\ RpWellFormed /\ root_dir = NoneText
    /\ Len(RpChain) = 3 /\ rp_steps = 2 /\ RpHasBackslash
    /\ ~rp_result.isNone

\* the paths left when one occurrence of R followed by '/' or one trailing R
\* is taken out of p
OneRemoved(p, R) ==
    {SubSeq(p, 1, i - 1) \o SubSeq(p, i + Len(R) + 1, Len(p)) :
        i \in {j \in 1..Len(p) : StartsWith(SubSeq(p, j, Len(p)), R \o Slash)}}
    \cup (IF Len(p) >= Len(R) /\ SubSeq(p, Len(p) - Len(R) + 1, Len(p)) = R
          THEN {SubSeq(p, 1, Len(p) - Len(R))} ELSE {})

\* C4: with a synthetic root R detected, the returned path is the assembled path
\* with exactly one occurrence of R + '/' (or one trailing R) removed and every
\* other character kept (leading separators trimmed).
C4_StripsExactlyOne ==
    (rp_pc = "done" /\ RpWellFormed /\ root_dir /= NoneText)
        => LET assembled == ReplaceChar(Join(RpChainNames, Slash), "\\", "/")
               allowed   == IF OneRemoved(assembled, root_dir) = {}
                            THEN {LStrip(assembled, "/")}
                            ELSE {LStrip(q, "/") : q \in OneRemoved(assembled, root_dir)}
           IN  rp_result.path \in allowed

\* C5: the parent walk ends after at most as many steps as there are records
\* (a longer walk must have been stopped by a cycle fault).
C5_WalkBounded == rp_steps <= Cardinality(DOMAIN file_dic)

C13_Dangling == rp_pc = "done" /\ rp_id \in DOMAIN file_dic /\ ~RpWellFormed

\* C13: when the parent chain of a record reaches an id that is not in the
\* index, reconstruct_path does not return a path as if the chain had ended at
\* a null-parent root.
C13_DanglingDetected == C13_Dangling => rp_result.isNone

(***************************************************************************)
(* Claims about the content resolver and the timestamp (SpecFn)            *)
(***************************************************************************)
C6_ShardedExists ==
    PathExists(fn_in.store, ShardedPath(Lower(fn_in.cid[1]), fn_in.cid))
C6_FlatExists == PathExists(fn_in.store, FlatPath(fn_in.cid))

\* C6: resolve returns the sharded path (lowercased first character) when it
\* exists, otherwise the flat path when it exists, otherwise null.
C6_Resolution ==
    (fn_call = "resolve" /\ fn_out.done /\ fn_in.cid /= NoneText)
        => /\ C6_ShardedExists
                => fn_out.path = ShardedPath(Lower(fn_in.cid[1]), fn_in.cid)
           /\ (~C6_ShardedExists /\ C6_FlatExists) => fn_out.path = FlatPath(fn_in.cid)
           /\ (~C6_ShardedExists /\ ~C6_FlatExists) => fn_out.path = <<>>

\* an id with an upper-case first character, present only in the flat layout
\* although another blob lies in a shard, has been resolved by the fallback
C6_Witness ==
    /\ fn_call = "resolve" /\ fn_out.done /\ fn_in.cid /= NoneText
    /\ fn_in.cid[1] = "A"
    /\ ~C6_ShardedExists /\ C6_FlatExists
    /\ fn_out.path = FlatPath(fn_in.cid)
    /\ \E f \in fn_in.store : Len(f) = 2

\* the columns of the row that hold a non-null number
C8_Usable == {i \in 1..4 : fn_in.row[i][1] \in {"int", "real"}}

\* C8: the timestamp chosen is the first of image date, video date, creation
\* time, birth time that is a non-null number, and null only when none is.
C8_TimestampPriority ==
    (fn_call = "mtime" /\ fn_out.done)
        => IF C8_Usable = {} THEN fn_out.ts = NullTs
           ELSE /\ fn_out.ts /= NullTs
                /\ \E i \in C8_Usable : /\ \A j \in C8_Usable : i <= j
                                        /\ fn_out.ts = fn_in.row[i]

\* image date 0 and a different video date: the image date was chosen
C8_Witness ==
    /\ fn_call = "mtime" /\ fn_out.done
    /\ fn_in.row[1] = <<"int", 0>> /\ fn_in.row[2] = <<"int", 5>>
    /\ fn_out.ts = fn_in.row[1]

\* the ids from the root down to the record idToPath2 was applied to
C11_Chain == UpChain(fn_in.dic, fn_in.id, MaxRecords)
C11_WellFormed == \A i \in 1..Len(C11_Chain) : C11_Chain[i] /= 0

\* C11: for a record whose parent chain ends at a root, idToPath2 / findTree
\* returns the ancestors' names from the root down, each once, followed by the
\* record's name, joined by '/'.
C11_LegacyPath ==
    (fn_call = "idToPath2" /\ fn_out.done /\ C11_WellFormed)
        => fn_out.tree = [st |-> "ok",
                          path |-> Join([i \in 1..Len(C11_Chain) |->
                                            fn_in.dic[C11_Chain[i]].Name], Slash)]

(***************************************************************************)
(* Claims about the ledger (SpecLedger)                                    *)
(***************************************************************************)
\* the calls made so far with this operation and key, by position
C7_Calls(op, key) ==
    {i \in 1..Len(ledger_calls) : ledger_calls[i][1] = op /\ ledger_calls[i][2] = key}

\* the table holds, for key, nothing if it was never inserted and otherwise
\* exactly one row, with the content given by the first call
C7_OneRow(table, op, key) ==
    LET calls == C7_Calls(op, key)
        rows  == RowsWithKey(table, key)
    IN  IF calls = {} THEN rows = {}
        ELSE /\ Cardinality(rows) = 1
             /\ LET first == CHOOSE i \in calls : \A j \in calls : i <= j
                IN  \A r \in rows : table[r][2] = ledger_calls[first][3]

\* C7: after any sequence of mark_copied / mark_skipped calls there is exactly
\* one row per distinct file id in copied_files and per distinct content id in
\* skipped_files, and it is the row of the first call with that key.
C7_LedgerIdempotent ==
    /\ \A id \in LedgerFileIds : C7_OneRow(copied_files, "copied", id)
    /\ \A name \in LedgerNames : C7_OneRow(skipped_files, "skipped", name)

\* mark_copied was called twice for one id with different contents and one row
\* is stored
C7_Witness ==
    /\ \E id \in LedgerFileIds :
          \E i \in C7_Calls("copied", id), j \in C7_Calls("copied", id) :
              i < j /\ ledger_calls[i][3] /= ledger_calls[j][3]
    /\ Len(copied_files) = 1

(***************************************************************************)
(* Claims about the runs of the scripts (Spec)                             *)
(***************************************************************************)
PipelineModes == {"legacy", "resume"}

\* the file records whose content is present in the source store
Resolvable == {i \in DOMAIN file_dic : /\ file_dic[i].contentID /= NoneText
                                       /\ file_dic[i].contentID \in src_files}

\* the second of two full copy runs with the same command line has exited, and
\* no copy met an I/O failure in either run
C1_SecondRunDone ==
    /\ main.run = 2 /\ main.pc = "exited"
    /\ cfg.mode \in PipelineModes /\ cfg.args_ok /\ ~cfg.dry_run
    /\ hist.cfg1 = cfg
    /\ hist.clean1 /\ hist.io_failed = {}

\* C1: after the second of two full copy runs on the same index, source and
\* destination the destination tree equals the tree after the first run, the
\* second run made no byte copy, and copied_files holds as many rows as there
\* are resolvable file records.
C1_Idempotence ==
    C1_SecondRunDone
        => /\ dest = hist.dest1
           /\ hist.copies = 0
           /\ Len(copied_files) = Cardinality(Resolvable)

\* the tasks of the run that reported a would-copy outcome
WouldCopy == {t \in Tasks : task[t].outcome \in {"would_copy", "dry_run"}}

\* C2: in a run with the dry-run flag, resume mode included, the destination
\* and the copied_files / skipped_files rows stay as they were when the run
\* started, and a run over a fresh destination and ledger ends with one
\* would-copy outcome per resolvable record.
C2_DryRunNoEffects ==
    (cfg.dry_run /\ cfg.mode \in PipelineModes)
        => /\ dest = hist.dest0
           /\ <<copied_files, skipped_files>> = hist.ledger0
           /\ (/\ main.pc = "exited" /\ cfg.args_ok
               /\ UnderDumpDir(hist.dest0) = {} /\ hist.ledger0 = <<<<>>, <<>>>>)
                  => Cardinality(WouldCopy) = Cardinality(Resolvable)

\* C9: a record whose byte copy met an I/O failure ends as errored; in the
\* legacy pool no other record ends as errored; the run does not leave the pool
\* before every submitted record has an outcome, and while records are
\* outstanding some worker step is possible.
C9_FaultIsolation ==
    /\ \A t \in Tasks : t \in hist.io_failed
          => task[t].pc = "done" /\ task[t].outcome = "errored"
    /\ \A t \in Tasks : (cfg.mode = "legacy" /\ task[t].outcome = "errored")
          => t \in hist.io_failed
    /\ main.pc = "exited" => \A t \in Tasks : task[t].pc = "done" /\ task[t].outcome /= "none"
    /\ (main.pc = "join" /\ cfg.mode \in PipelineModes /\ ~AllDone)
          => \E t \in Tasks :
                \/ task[t].pc \in {"lookup", "check", "copy", "write", "count", "log", "work"}
                \/ task[t].pc = "queued" /\ Cardinality(Running) < ThreadCount

\* a legacy run has ended in which one copy failed and another record was copied
C9_Witness ==
    /\ main.pc = "exited" /\ cfg.mode = "legacy"
    /\ \E t \in Tasks, u \in Tasks :
          /\ t \in hist.io_failed /\ task[t].outcome = "errored"
          /\ u /= t /\ task[u].outcome = "copied"

C10_Errored == \E t \in Tasks : task[t].outcome = "errored"

C14_InitStep ==
    /\ Len(ledger_calls') = Len(ledger_calls) + 1
    /\ ledger_calls'[Len(ledger_calls')][1] = "init"

\* the rows of a ledger table after the call: kept when the table existed,
\* none when the call created it
C14_Kept(name, before, after) ==
    /\ name \in tables'
    /\ after = IF name \in tables THEN before ELSE <<>>

\* C14: init_copy_tracking_tables creates copied_files and skipped_files when
\* they are absent and leaves the rows of an existing table, and the Files
\* table, as they are; a call that follows another call changes nothing.
C14_NonDestructive ==
    [][C14_InitStep
         => /\ C14_Kept("copied_files", copied_files, copied_files')
            /\ C14_Kept("skipped_files", skipped_files, skipped_files')
            /\ tables' = tables \cup {"copied_files", "skipped_files"}
            /\ file_dic' = file_dic
            /\ (Len(ledger_calls) > 0 /\ ledger_calls[Len(ledger_calls)][1] = "init")
                  => <<tables, copied_files, skipped_files>>' =
                         <<tables, copied_files, skipped_files>>]_vars

\* init_copy_tracking_tables has just been called on a database whose ledger
\* tables held rows, and the rows are there
C14_Witness ==
    /\ Len(ledger_calls) = 3
    /\ ledger_calls[1][1] = "copied" /\ ledger_calls[2][1] = "skipped"
    /\ ledger_calls[3][1] = "init"
    /\ Len(copied_files) = 1 /\ Len(skipped_files) = 1

\* the record of task t is a file record that does not resolve: no blob for its
\* content id in the source store, or an empty reconstructed path
C15_Miss(t) ==
    /\ task[t].rec /= NoneId /\ task[t].file /= NoneText
    /\ \/ task[t].file \notin src_files
       \/ ReconstructPath(task[t].rec, file_dic, FindRootDirName(file_dic)).isNone

\* C15: a record that does not resolve ends as skipped, never as errored (nor
\* as copied), in the resume pipeline and in the farm builder.
C15_MissIsSkipped ==
    \A t \in Tasks :
        (cfg.mode \in {"resume", "farm"} /\ ~cfg.dry_run /\ task[t].pc = "done" /\ C15_Miss(t))
            => task[t].outcome \in {"no_source", "skipped_problem", "skipped_already"}

RecordDest(rec) ==
    NormFs(DumpDir \o Slash \o ReconstructPath(rec, file_dic, FindRootDirName(file_dic)).path)

\* task t is being decided while its destination exists and the ledger does
\* not hold it
C17_DestExists(t) ==
    \/ /\ cfg.mode = "legacy" /\ task[t].pc = "check"
       /\ DestExists(dest, task[t].newpath) /\ task[t].newpath \notin main.log_set
    \/ /\ cfg.mode = "resume" /\ task[t].pc = "work" /\ task[t].file /= NoneText
       /\ DestExists(dest, RecordDest(task[t].rec))
       /\ task[t].file \notin main.copied_set \cup main.skipped_set

\* C17: a pending record whose destination already exists when it is processed,
\* without being in the ledger, ends as skipped-already-present and the
\* destination is left as it was.
C17_DestExistsSkip ==
    [][\A t \in Tasks :
          (C17_DestExists(t) /\ task'[t].pc /= task[t].pc)
              => /\ task'[t].outcome \in {"skipped_exists", "skipped_already"}
                 /\ dest' = dest]_vars

\* the log lines and the copied_files rows the workers of this run have written
C18_NewLines == {log_lines[i] : i \in 1..Len(log_lines)} \ main.log_set
C18_NewRows  == {copied_files[i] : i \in 1..Len(copied_files)}
                    \ {r \in {copied_files[i] : i \in 1..Len(copied_files)} :
                           r[2] \in main.copied_set}
C18_InRun(mode) == cfg.mode = mode /\ cfg.args_ok /\ main.pc \in {"submit", "join", "exited"}

\* C18: a log line (legacy) or a copied_files row (resume) written by a worker
\* belongs to a record whose copy had returned successfully; a record whose
\* copy failed has neither.
C18_RecordedAfterCopy ==
    /\ C18_InRun("legacy") =>
          /\ \A line \in C18_NewLines :
                \E t \in Tasks : /\ SourcePath(task[t].file) = line
                                 /\ task[t].outcome = "copied" /\ t \notin hist.io_failed
          /\ \A t \in hist.io_failed : SourcePath(task[t].file) \notin C18_NewLines
    /\ C18_InRun("resume") =>
          \A r \in C18_NewRows :
                \E t \in Tasks : /\ task[t].rec = r[1] /\ task[t].file = r[2]
                                 /\ task[t].outcome = "copied"

\* a legacy run in which one copy was logged and another failed
C18_Witness ==
    /\ C18_InRun("legacy") /\ C18_NewLines /= {}
    /\ \E t \in hist.io_failed : task[t].pc = "done"

\* task t stands for a directory record: a row of Files with a null contentID
C19_Directory(t) ==
    /\ task[t].rec /= NoneId /\ task[t].rec \in DOMAIN file_dic
    /\ file_dic[task[t].rec].contentID = NoneText

\* C19: a directory record is never handed to a worker as a copy task, and it
\* is never counted as copied, would-copy, created or errored.
C19_OnlyFileRecords ==
    \A t \in Tasks :
        C19_Directory(t)
            => /\ cfg.mode /= "resume"
               /\ task[t].outcome \notin {"copied", "dry_run", "would_copy", "created", "errored"}

\* when the run began, the destination held a file at this path whose bytes
\* had not all been written
C20_Partial(path) == \E f \in hist.dest0 : f.path = NormFs(path) /\ ~f.complete

\* C20: a record whose destination file was left partly written by an earlier
\* run is not treated as present or copied by a later run: the legacy run does
\* not skip it, and the --resume run, regeneration included, keeps it pending.
C20_CrashSafe ==
    main.run = 2 =>
        /\ (cfg.mode = "legacy" /\ cfg.args_ok) =>
              \A t \in Tasks :
                  (task[t].pc = "done" /\ task[t].newpath /= <<>>
                                       /\ C20_Partial(task[t].newpath))
                      => task[t].outcome \notin {"skipped_exists", "skipped_log"}
        /\ (cfg.mode = "resume" /\ cfg.args_ok) =>
              \A i \in DOMAIN file_dic :
                  (file_dic[i].contentID /= NoneText /\ C20_Partial(RecordDest(i)))
                      => \E t \in Tasks :
                             /\ task[t].rec = i
                             /\ task[t].outcome \notin {"skipped_already", "skipped_problem"}

\* C21: a line that a successful copy appended to the log in the first run is
\* matched by the log membership test of the next run, which skips that file
\* by the log alone.
C21_LogRoundTrip ==
    (main.run = 2 /\ cfg.mode = "legacy" /\ cfg.args_ok /\ hist.cfg1.mode = "legacy")
        => \A t \in Tasks :
               (task[t].pc = "done" /\ SourcePath(task[t].file) \in main.log_set)
                   => task[t].outcome = "skipped_log"

\* the atomic regeneration of a script start and the statement-by-statement
\* one leave the same table and the same log
RegenSameAsAtomic ==
    regen.pc = "done"
        => /\ copied_files = RegenerateRows(hist.ledger0[1], file_dic, WalkDest(dest))
           /\ log_lines = WalkDest(dest)

\* the name of a destination file is the name of at least one record of Files
C22_Matches(f) == \E i \in DOMAIN file_dic : file_dic[i].Name = BaseName(f.path)

C23_NewRows == {copied_files[k] : k \in Len(hist.ledger0[1]) + 1 .. Len(copied_files)}

\* C23: regenerate_copied_files_from_dest adds a copied_files row only for a
\* record whose own destination path exists below dumpdir.
C23_OnlyPresentMarked ==
    regen.pc = "done"
        => \A r \in C23_NewRows : DestExists(dest, RecordDest(r[1]))

\* C24: no ledger transaction ever holds more than one insert that is not yet
\* committed.
C24_SingleInsert == Len(regen.txn) <= 1

\* C25: an insert that finds the ledger store unavailable for a moment is
\* tried again, so its row is stored all the same.
C25_TransientRetried ==
    \A k \in 1..Len(ledger_calls) :
        ledger_calls[k][1] = "copied_locked_once"
            => RowsWithKey(copied_files, ledger_calls[k][2]) /= {}

\* the outcomes of copy_file that are counted, and the counter each adds to
\* besides processed
C26_Counted == {"not_in_db", "skipped_log", "skipped_exists", "would_copy", "copied"}
C26_Class(outcome) == IF outcome \in {"would_copy", "copied"} THEN "copied" ELSE "skipped"

\* task t has made its increment of this counter
C26_Has(t, field) ==
    /\ task[t].outcome \in C26_Counted
    /\ field \in {"processed", C26_Class(task[t].outcome)}
    /\ ~(task[t].pc = "count" /\ \E k \in 1..Len(task[t].todo) : task[t].todo[k] = field)

C26_InLegacyRun == cfg.mode = "legacy" /\ cfg.args_ok /\ main.pc \in {"submit", "join", "exited"}

\* every counter holds exactly the increments made so far, and after the last
\* worker processed = copied + skipped = the number of counted files
C26_Totals ==
    C26_InLegacyRun =>
        /\ \A field \in {"processed", "copied", "skipped"} :
              counters[field] = Cardinality({t \in Tasks : C26_Has(t, field)})
        /\ (AllDone /\ main.pc \in {"join", "exited"}) =>
              /\ counters.processed = counters.copied + counters.skipped
              /\ counters.processed
                     = Cardinality({t \in Tasks : task[t].outcome \in C26_Counted})

\* C26: under every interleaving of the workers no counter decreases while the
\* script runs and no increment is lost, and once all workers have finished processed = copied +
\* skipped = the number of files that ended in a counted outcome.
C26_CountersConsistent ==
    /\ []C26_Totals
    /\ [][(C26_InLegacyRun /\ main'.run = main.run)
               => \A field \in {"processed", "copied", "skipped"} :
                      counters'[field] >= counters[field]]_vars

\* a finished legacy run that copied one file and skipped another
C26_Witness ==
    /\ C26_InLegacyRun /\ AllDone /\ main.pc = "join"
    /\ counters.copied >= 1 /\ counters.skipped >= 1

\* C27: whenever the counters are read, workers running or not, processed =
\* copied + skipped.
C27_AlwaysConsistent ==
    C26_InLegacyRun => counters.processed = counters.copied + counters.skipped

\* the class of an outcome of copy_worker: a copy made or announced, a skip,
\* an error
C28_Class(outcome) ==
    IF outcome \in {"copied", "dry_run"} THEN "copy"
    ELSE IF outcome \in {"skipped_already", "skipped_problem"} THEN "skip"
    ELSE outcome

\* C28: the outcome a dry run reports for a record is of the class a real run
\* over the same index, source, destination and ledger produces for it.
C28_DryRunFidelity ==
    (fn_call = "copy_worker" /\ fn_out.done /\ fn_in.sets.dry_run)
        => C28_Class(fn_out.outcome)
               = C28_Class(CopyWorkerOutcome(fn_in.cid, fn_in.sets.copied,
                                             fn_in.sets.skipped, FALSE, fn_in.sets.source))

\* C29: a record whose processing had not started when the operator
\* interrupted the run is not started afterwards.
C29_NoStartAfterInterrupt ==
    \A t \in hist.unstarted : task[t].pc \in {"new", "queued"}

C31_SuccessfulRetry ==
    (/\ restore.pc = "done" /\ Len(restore.runs) >= 2
     /\ restore.runs[Len(restore.runs)].rc = 0
     /\ ~restore.runs[Len(restore.runs)].errors)
        => restore.exit = 0

\* C32: a run_rsync that returned 130 (interrupted by the user) is the last
\* transfer attempt run_restore starts.
C32_NoRetryAfterInterrupt ==
    \A k \in 1..Len(restore.runs) :
        restore.runs[k].rc = 130 => k = Len(restore.runs)

\* the records create_symlink_farm has a blob and a path for
C33_Resolvable ==
    {i \in DOMAIN file_dic :
        /\ file_dic[i].contentID /= NoneText
        /\ GetSourceFilePath(file_dic[i].contentID, FarmStore(src_files)) /= <<>>
        /\ ~ReconstructPath(i, file_dic, FindRootDirName(file_dic)).isNone}

\* farm/<reconstructed path> of record i
C33_FarmPath(i) ==
    FarmDir \o Slash \o ReconstructPath(i, file_dic, FindRootDirName(file_dic)).path

\* a run of create_symlink_farm (not a dry run) that started on an empty farm
\* and ended with no OSError
C33_CleanFarmRun ==
    /\ cfg.mode = "farm" /\ ~cfg.dry_run /\ main.pc = "exited" /\ task /= <<>> /\ AllDone
    /\ \A t \in Tasks : task[t].outcome \in {"created", "no_content", "no_source",
                                              "errored", "real_exists"}
    /\ ~FarmNotEmpty(hist.dest0) /\ hist.io_failed = {}

\* C33: after create_symlink_farm has run on an empty farm without OS errors,
\* every record with a content id, a resolvable blob and a non-empty path has
\* its symlink at farm/<path> pointing at its blob, and the farm holds as many
\* symlinks as the returned created count.
C33_OneLinkPerRecord ==
    C33_CleanFarmRun =>
        /\ \A i \in C33_Resolvable :
               \E f \in dest : /\ f.path = C33_FarmPath(i) /\ f.link
                                /\ f.cid = file_dic[i].contentID
        /\ Cardinality({f \in dest : f.link /\ StartsWith(f.path, FarmDir \o Slash)})
               = main.tally.created

\* C34: on the same index, source directory and sanitize_pipes, and empty
\* farm directories, create_symlink_farm_streaming and create_symlink_farm
\* produce the same set of (relative farm path, link target) symlinks.
C34_BuildersAgree == farms.pc = "done" => farms.farm = farms.farm_streaming

\* C39: when create_symlink_farm has gone through the index, created +
\* skipped_no_content + skipped_no_source + errors is the number of index
\* records.
C39_TallyPartition ==
    (/\ cfg.mode = "farm" /\ main.pc = "exited" /\ task /= <<>> /\ AllDone
     /\ \A t \in Tasks : task[t].outcome \in {"created", "no_content", "no_source",
                                               "errored", "real_exists"})
        => main.tally.created + main.tally.skipped_no_content
             + main.tally.skipped_no_source + main.tally.errors = Len(file_dic)

\* the tasks of the run whose copy reached a destination path, and that path
C35_Copying(t) == task[t].pc = "write" \/ task[t].outcome = "copied"

\* C35: of two records with the same destination path that concurrent workers
\* of one legacy run process, at most one is copied to that path.
C35_NoDoubleCopy ==
    (cfg.mode = "legacy" /\ main.pc \in {"submit", "join", "exited"}) =>
        \A t \in Tasks, u \in Tasks :
            (t /= u /\ task[t].newpath /= <<>> /\ task[t].newpath = task[u].newpath)
                => ~(C35_Copying(t) /\ C35_Copying(u))

\* the tasks of the run whose copy succeeded
C36_Copied == {t \in Tasks : task[t].outcome = "copied"}

\* the log lines behind those the run started with
C36_Gained == SubSeq(log_lines, Len(hist.log0) + 1, Len(log_lines))

C37_TargetsRestoredFile ==
    (sync.pc = "done" /\ sync.run = 1 /\ ~sync.dry_run) =>
        \A n \in 1..Len(sync.rows) :
            sync.rows[n][3] /= NullTs
                => <<sync.written[sync.rows[n][1]], MtimeSeconds(sync.rows[n][3])>>
                       \in sync.touched

\* C38: after an interrupted run of sync_mtimes and a second run with the
\* --resume-from value the first one printed, every row of the query got past
\* the resume test in one of the two runs.
C38_ResumeLosesNoRecord ==
    (sync.pc = "done" /\ sync.run = 2) =>
        \A n \in 1..Len(sync.rows) : n \in sync.past[1] \cup sync.past[2]

\* the first run was interrupted after it had fetched the second row; the second
\* run skipped the first row and went on from the second
C38_Witness ==
    /\ sync.pc = "done" /\ sync.run = 2 /\ sync.printed = 2
    /\ sync.past[1] = {1} /\ sync.past[2] = {2}

====
